---- MODULE Spec2Model ----
(***************************************************************************)
(* polite-retry: retry orchestrator, circuit breaker and adaptive retry    *)
(* budget, modelled as a state machine.                                    *)
(*                                                                         *)
(* JavaScript runs one synchronous block at a time: everything between two *)
(* awaits of a call is one atomic action here.  Time is the value of       *)
(* Date.now(), advanced by Tick.  The budget's numbers (budget,            *)
(* failureRate and its options) are IEEE 754 doubles with the arithmetic   *)
(* of doubles; the breaker's rates and the delays are exact rationals      *)
(* <<num, den>>.                                                           *)
(***************************************************************************)
EXTENDS Integers, Sequences, FiniteSets, TLC

VARIABLES
    now,            \* Date.now()
    cbOptions,      \* CircuitBreakerOptions of the shared breaker
    circuitBreaker, \* the CircuitBreaker's fields
    last,           \* the last direct breaker operation: its name, the value it
                    \* returned and the breaker's state field before it
    hist,           \* outcomes recorded on the breaker since construction
    hoAnswers,      \* isAllowed() answers during the current stay in half-open
    hoStays,        \* number of entries to half-open so far
    failedAt,       \* Date.now() at the most recent direct recordFailure()
    directOps,      \* breaker operations other callers may still make while
                    \* an orchestrated call runs
    budgetOptions,  \* AdaptiveRetryOptions of the shared budget
    budgetManager,  \* the AdaptiveRetryBudget's fields
    adjustments,    \* runs of the periodic adjustment that changed the budget
    asking,         \* direct shouldRetry() calls awaiting checkBackpressure()
    lastBudgetOp,   \* the last direct budget operation and the value it returned
    sinceTick,      \* the budget right after the last adjustment tick, reset()
                    \* or construction, and the direct shouldRetry() and
                    \* shouldRetrySync() calls that returned true since
    options,        \* RetryOptions passed to every orchestrated call
    calls,          \* the orchestrated calls: position, locals and what each did
    bpOptions,      \* options the BackpressureManager is constructed with
    signals,        \* the BackpressureManager's map from service id to signal
    lastSignalOp,   \* the last operation on the BackpressureManager, what it
                    \* was given and what it returned
    fired,          \* the observer callbacks invoked by the last direct
                    \* operation on the breaker or the budget, in order
    backoffCall     \* a direct call of calculateBackoff: its arguments, the
                    \* draw of Math.random() and the delay returned

cbVars == <<cbOptions, circuitBreaker>>
obsVars == <<last, hist, hoAnswers, hoStays, failedAt>>
budgetVars == <<budgetOptions, budgetManager, adjustments>>
askVars == <<asking, lastBudgetOp, sinceTick>>
callVars == <<options, calls>>
bpVars == <<bpOptions, signals, lastSignalOp>>
vars == <<now, cbVars, obsVars, directOps, budgetVars, askVars, callVars,
          bpVars, fired, backoffCall>>

----------------------------------------------------------------------------
(* Bounds *)

\* Date.now() at construction; the clock runs from StartTime to MaxTime.
StartTime == 2
MaxTime == 4
\* isAllowed() calls answered during one stay in half-open.
MaxHalfOpenAttempts == 3
\* Length up to which the recorded history is kept.
MaxHist == 4

\* Largest attempt index calculateBackoff is called with directly.
MaxAttempt == 3

\* Concurrent orchestrated calls.
NumCalls == 2
\* Largest maxRetries passed to a call.
MaxRetriesBound == 2
\* Runs of the budget's periodic adjustment that change the budget.
MaxAdjustments == 1
\* Direct breaker operations made beside the orchestrated calls.
MaxDirectOps == 2
\* Outcomes recorded directly on the budget between two reset() calls.
MaxRequests == 4
\* Direct shouldRetry() calls awaiting checkBackpressure() at one time.
MaxAsking == 2

\* Option values the breaker is constructed with.
WindowSizes == {1, 2, 3}
Thresholds == {<<0, 1>>, <<1, 2>>, <<2, 3>>, <<1, 1>>}
ResetTimeouts == {1, 2}

----------------------------------------------------------------------------
(* Rationals <<num, den>> with den > 0, kept in lowest terms *)

Rat == Int \X Int

Gcd[a \in Nat, b \in Nat] == IF b = 0 THEN a ELSE Gcd[b, a % b]

Abs(n) == IF n < 0 THEN -n ELSE n

Norm[a \in Rat] ==
    <<a[1] \div Gcd[Abs(a[1]), a[2]], a[2] \div Gcd[Abs(a[1]), a[2]]>>

RatGE[a \in Rat, b \in Rat] == a[1] * b[2] >= b[1] * a[2]
RatGT[a \in Rat, b \in Rat] == a[1] * b[2] > b[1] * a[2]
RatAdd[a \in Rat, b \in Rat] == Norm[<<a[1] * b[2] + b[1] * a[2], a[2] * b[2]>>]
RatSub[a \in Rat, b \in Rat] == Norm[<<a[1] * b[2] - b[1] * a[2], a[2] * b[2]>>]
RatMul[a \in Rat, b \in Rat] == Norm[<<a[1] * b[1], a[2] * b[2]>>]
RatMin[a \in Rat, b \in Rat] == IF RatGE[a, b] THEN b ELSE a
RatMax[a \in Rat, b \in Rat] == IF RatGE[a, b] THEN a ELSE b
Zero == <<0, 1>>
One == <<1, 1>>

----------------------------------------------------------------------------
(* Natural numbers of any size, as the sequence of their digits in base    *)
(* 2^14, lowest digit first, without leading zeros; <<>> is 0.  The        *)
(* arithmetic is written as functions: a function is applied to the values *)
(* of its arguments.                                                       *)

DigitBits == 14
Base == 2 ^ DigitBits
Big == Seq(Nat)

BigTrim[a \in Big] ==
    IF a = <<>> \/ a[Len(a)] # 0 THEN a ELSE BigTrim[SubSeq(a, 1, Len(a) - 1)]

BigDigit(a, i) == IF 1 <= i /\ i <= Len(a) THEN a[i] ELSE 0

BigFromInt[n \in Nat] ==
    BigTrim[<<n % Base, (n \div Base) % Base, n \div (Base * Base)>>]

\* The digits of the number whose digits, not yet below Base, are those
\* of a from the i-th on, plus c: the carries propagated
BigCarryFrom[a \in Big, i \in Nat, c \in Nat] ==
    IF i > Len(a) THEN (IF c = 0 THEN <<>> ELSE <<c>>)
    ELSE <<(a[i] + c) % Base>> \o BigCarryFrom[a, i + 1, (a[i] + c) \div Base]

BigCarry[a \in Big] == BigTrim[BigCarryFrom[a, 1, 0]]

\* a + b from digit i on, with carry c
BigAddFrom[a \in Big, b \in Big, i \in Nat, c \in Nat] ==
    IF i > Len(a) /\ i > Len(b) THEN (IF c = 0 THEN <<>> ELSE <<c>>)
    ELSE <<(BigDigit(a, i) + BigDigit(b, i) + c) % Base>>
         \o BigAddFrom[a, b, i + 1, (BigDigit(a, i) + BigDigit(b, i) + c) \div Base]

BigAdd[a \in Big, b \in Big] == BigAddFrom[a, b, 1, 0]

\* a - b from digit i on, with borrow c; a >= b
BigSubFrom[a \in Big, b \in Big, i \in Nat, c \in Nat] ==
    IF i > Len(a) THEN <<>>
    ELSE <<(a[i] - BigDigit(b, i) - c) % Base>>
         \o BigSubFrom[a, b, i + 1, IF a[i] - BigDigit(b, i) - c < 0 THEN 1 ELSE 0]

BigSub[a \in Big, b \in Big] == BigTrim[BigSubFrom[a, b, 1, 0]]

\* -1, 0 or 1 as a < b, a = b or a > b, comparing from digit i down
BigCmpFrom[a \in Big, b \in Big, i \in Nat] ==
    IF i = 0 THEN 0
    ELSE IF a[i] # b[i] THEN (IF a[i] < b[i] THEN -1 ELSE 1)
    ELSE BigCmpFrom[a, b, i - 1]

BigCmp[a \in Big, b \in Big] ==
    IF Len(a) # Len(b) THEN (IF Len(a) < Len(b) THEN -1 ELSE 1)
    ELSE BigCmpFrom[a, b, Len(a)]

\* a * b, for a and b of at most four digits: the seven sums of the
\* products of digits whose places add up to the same, and the carries
BigMul[a \in Big, b \in Big] ==
    LET a1 == BigDigit(a, 1)
        a2 == BigDigit(a, 2)
        a3 == BigDigit(a, 3)
        a4 == BigDigit(a, 4)
        b1 == BigDigit(b, 1)
        b2 == BigDigit(b, 2)
        b3 == BigDigit(b, 3)
        b4 == BigDigit(b, 4)
    IN BigCarry[<<a1 * b1, a1 * b2 + a2 * b1, a1 * b3 + a2 * b2 + a3 * b1,
                  a1 * b4 + a2 * b3 + a3 * b2 + a4 * b1,
                  a2 * b4 + a3 * b3 + a4 * b2, a3 * b4 + a4 * b3, a4 * b4>>]

\* The digits of the whole part of a / k, from the i-th down, and the
\* remainder, r being the remainder of the digits above; 0 < k < Base
BigDivFrom[a \in Big, k \in Nat, i \in Nat, r \in Nat] ==
    IF i = 0 THEN <<>>
    ELSE BigDivFrom[a, k, i - 1, (r * Base + a[i]) % k] \o <<(r * Base + a[i]) \div k>>

BigRemFrom[a \in Big, k \in Nat, i \in Nat, r \in Nat] ==
    IF i = 0 THEN r ELSE BigRemFrom[a, k, i - 1, (r * Base + a[i]) % k]

BigDiv[a \in Big, k \in Nat] == BigTrim[BigDivFrom[a, k, Len(a), 0]]
BigRem[a \in Big, k \in Nat] == BigRemFrom[a, k, Len(a), 0]

\* a * 2^n
BigShl[a \in Big, n \in Nat] ==
    LET d == n \div DigitBits
        p == 2 ^ (n % DigitBits)
    IN BigTrim[SubSeq([i \in 1..(Len(a) + d + 1) |->
                          ((BigDigit(a, i - d) * p) % Base)
                          + ((BigDigit(a, i - d - 1) * p) \div Base)],
                      1, Len(a) + d + 1)]

\* The whole part of a / 2^n
BigShr[a \in Big, n \in Nat] ==
    LET d == n \div DigitBits
        p == 2 ^ (n % DigitBits)
    IN IF d >= Len(a) THEN <<>>
       ELSE BigTrim[SubSeq([i \in 1..(Len(a) - d) |->
                               (a[i + d] \div p)
                               + (BigDigit(a, i + d + 1) % p) * (Base \div p)],
                           1, Len(a) - d)]

\* The n-th binary digit of a, counted from 0, and whether a binary digit
\* below the n-th is 1
BigBit(a, n) == (BigDigit(a, (n \div DigitBits) + 1) \div (2 ^ (n % DigitBits))) % 2

BigBitsBelow(a, n) ==
    \/ \E i \in 1..(n \div DigitBits) : BigDigit(a, i) # 0
    \/ BigDigit(a, (n \div DigitBits) + 1) % (2 ^ (n % DigitBits)) # 0

\* The number of binary digits of n and of a
BitLen[n \in Nat] == IF n = 0 THEN 0 ELSE 1 + BitLen[n \div 2]

BigBitLen[a \in Big] ==
    IF a = <<>> THEN 0 ELSE DigitBits * (Len(a) - 1) + BitLen[a[Len(a)]]

----------------------------------------------------------------------------
(* IEEE 754 binary64 numbers other than NaN and the infinities: the number *)
(* (-1)^neg * man * 2^exp, man of 53 binary digits, or fewer with exp at   *)
(* its minimum.  -0 is not told from 0.                                    *)

MantissaBits == 53
MinExp == -1074

Dbl == [neg : BOOLEAN, man : Big, exp : Int]

DblZero == [neg |-> FALSE, man |-> <<>>, exp |-> 0]

\* man * 2^exp for man of at most 53 binary digits and one more when the
\* rounding has carried
DblCarried[neg \in BOOLEAN, man \in Big, exp \in Int] ==
    IF man = <<>> THEN DblZero
    ELSE IF BigBitLen[man] > MantissaBits
    THEN [neg |-> neg, man |-> BigShr[man, 1], exp |-> exp + 1]
    ELSE [neg |-> neg, man |-> man, exp |-> exp]

\* Dropping the lowest `drop` binary digits of man rounds up: the highest
\* of them is 1 and either a lower one is too or the digit kept last is 1
RoundsUp(man, drop) ==
    /\ BigBit(man, drop - 1) = 1
    /\ BigBitsBelow(man, drop - 1) \/ BigBit(man, drop) = 1

\* man * 2^exp with the lowest `drop` binary digits of man rounded away,
\* or with -drop zeros appended to it
DblDrop[neg \in BOOLEAN, man \in Big, exp \in Int, drop \in Int] ==
    IF drop <= 0
    THEN [neg |-> neg, man |-> BigShl[man, -drop], exp |-> exp + drop]
    ELSE DblCarried[neg,
                    IF RoundsUp(man, drop) THEN BigAdd[BigShr[man, drop], <<1>>]
                    ELSE BigShr[man, drop],
                    exp + drop]

\* man * 2^exp rounded to the nearest double, to the even one on a tie:
\* what is beyond 53 binary digits or below 2^MinExp is rounded away
DblRound[neg \in BOOLEAN, man \in Big, exp \in Int] ==
    IF man = <<>> THEN DblZero
    ELSE DblDrop[neg, man, exp,
                 IF BigBitLen[man] - MantissaBits > MinExp - exp
                 THEN BigBitLen[man] - MantissaBits ELSE MinExp - exp]

\* (s / d) * 2^exp rounded: the whole part of the quotient with one more
\* binary digit that tells whether a remainder is left
DblQuotient[neg \in BOOLEAN, s \in Big, d \in Nat, exp \in Int] ==
    DblRound[neg,
             BigAdd[BigShl[BigDiv[s, d], 1], IF BigRem[s, d] = 0 THEN <<>> ELSE <<1>>],
             exp - 1]

\* n / d rounded, n taken with as many zeros appended as give the quotient
\* 56 binary digits or more
DblRatio[neg \in BOOLEAN, n \in Big, d \in Nat] ==
    IF 56 + BitLen[d] > BigBitLen[n]
    THEN DblQuotient[neg, BigShl[n, 56 + BitLen[d] - BigBitLen[n]], d,
                     BigBitLen[n] - 56 - BitLen[d]]
    ELSE DblQuotient[neg, n, d, 0]

\* The double a decimal literal n / d denotes; 0 < d < Base
DblFromRat[q \in Int \X Nat] ==
    DblRatio[q[1] < 0, BigFromInt[IF q[1] < 0 THEN -q[1] ELSE q[1]], q[2]]

DblNeg[a \in Dbl] == IF a.man = <<>> THEN a ELSE [a EXCEPT !.neg = ~@]

\* x * 2^exp + y * 2^exp with the signs xneg and yneg
DblAddAligned[xneg \in BOOLEAN, x \in Big, yneg \in BOOLEAN, y \in Big, exp \in Int] ==
    IF xneg = yneg THEN DblRound[xneg, BigAdd[x, y], exp]
    ELSE IF BigCmp[x, y] >= 0 THEN DblRound[xneg, BigSub[x, y], exp]
    ELSE DblRound[yneg, BigSub[y, x], exp]

\* a + b
DblAdd[a \in Dbl, b \in Dbl] ==
    IF a.man = <<>> THEN b
    ELSE IF b.man = <<>> THEN a
    ELSE IF a.exp < b.exp
    THEN DblAddAligned[a.neg, a.man, b.neg, BigShl[b.man, b.exp - a.exp], a.exp]
    ELSE DblAddAligned[a.neg, BigShl[a.man, a.exp - b.exp], b.neg, b.man, b.exp]

\* a - b
DblSub[a \in Dbl, b \in Dbl] == DblAdd[a, DblNeg[b]]

\* The mantissa of a power of two that is not subnormal
PowerOfTwo == BigShl[<<1>>, MantissaBits - 1]

\* a * b; the product by a power of two takes no multiplication
DblMul[a \in Dbl, b \in Dbl] ==
    IF a.man = <<>> \/ b.man = <<>> THEN DblZero
    ELSE IF b.man = PowerOfTwo
    THEN DblRound[a.neg # b.neg, a.man, a.exp + b.exp + MantissaBits - 1]
    ELSE IF a.man = PowerOfTwo
    THEN DblRound[a.neg # b.neg, b.man, a.exp + b.exp + MantissaBits - 1]
    ELSE DblRound[a.neg # b.neg, BigMul[a.man, b.man], a.exp + b.exp]

\* -1, 0 or 1 as the magnitude of a is below, equal to or above that of b,
\* neither being 0: the one with the larger exponent is the larger
MagnitudeCmp(a, b) ==
    IF a.exp # b.exp THEN (IF a.exp < b.exp THEN -1 ELSE 1)
    ELSE BigCmp[a.man, b.man]

\* -1, 0 or 1 as a < b, a = b or a > b
DblCmp[a \in Dbl, b \in Dbl] ==
    IF a.man = <<>> THEN (IF b.man = <<>> THEN 0 ELSE IF b.neg THEN 1 ELSE -1)
    ELSE IF b.man = <<>> \/ a.neg # b.neg THEN (IF a.neg THEN -1 ELSE 1)
    ELSE IF a.neg THEN -MagnitudeCmp(a, b) ELSE MagnitudeCmp(a, b)

DblLT[a \in Dbl, b \in Dbl] == DblCmp[a, b] < 0
DblLE[a \in Dbl, b \in Dbl] == DblCmp[a, b] <= 0
DblGT[a \in Dbl, b \in Dbl] == DblCmp[a, b] > 0
DblGE[a \in Dbl, b \in Dbl] == DblCmp[a, b] >= 0
DblMin[a \in Dbl, b \in Dbl] == IF DblLT[b, a] THEN b ELSE a
DblMax[a \in Dbl, b \in Dbl] == IF DblGT[b, a] THEN b ELSE a
DblAbs[a \in Dbl] == [a EXCEPT !.neg = FALSE]

DblOne == DblFromRat[<<1, 1>>]

----------------------------------------------------------------------------
(* CircuitBreaker: each method is an operator from the breaker's fields    *)
(* to its fields after the call.                                           *)

NewCircuitBreaker ==
    [state |-> "closed", failures |-> <<>>, lastFailureTime |-> 0,
     halfOpenAttempts |-> 0, notified |-> <<>>]

\* notified is not a field of the class: it lists the states onStateChange
\* was called with during the method call in progress, and is empty between
\* method calls
afterCall(b) == [b EXCEPT !.notified = <<>>]

\* transition() that leaves halfOpenAttempts as it was
transition_KeepsAttempts(b, newState) ==
    IF b.state # newState
    THEN [b EXCEPT !.state = newState, !.notified = Append(@, newState)]
    ELSE b

\* transition() that reports every call, also one that changes nothing
transition_AlwaysNotifies(b, newState) ==
    IF b.state # newState
    THEN [b EXCEPT !.state = newState, !.halfOpenAttempts = 0,
                   !.notified = Append(@, newState)]
    ELSE [b EXCEPT !.notified = Append(@, newState)]

transition(b, newState) ==
    IF b.state # newState
    THEN [b EXCEPT !.state = newState, !.halfOpenAttempts = 0,
                   !.notified = Append(@, newState)]
    ELSE b

\* transition() from b to b2 called an onStateChange that throws: the
\* statements after the call of transition() are not run
transitionThrows(b, b2, o) == b.state # b2.state /\ o.onStateChange = "throws"

\* trimWindow() that drops the newest outcomes
trimWindow_DropsNewest(f, size) ==
    IF Len(f) > size THEN SubSeq(f, 1, size) ELSE f

RECURSIVE trimWindow(_, _)
trimWindow(f, size) ==
    IF Len(f) > size THEN trimWindow(Tail(f), size) ELSE f

\* getState() that closes a half-open breaker left alone for longer than
\* resetTimeoutMs
getState_HalfOpenExpires(b, o, t) ==
    IF b.state = "open" /\ t - b.lastFailureTime >= o.resetTimeoutMs
    THEN transition(b, "half-open")
    ELSE IF b.state = "half-open" /\ t - b.lastFailureTime > o.resetTimeoutMs
    THEN transition(b, "closed")
    ELSE b

\* getState() that waits longer than resetTimeoutMs
getState_StrictWait(b, o, t) ==
    IF b.state = "open" /\ t - b.lastFailureTime > o.resetTimeoutMs
    THEN transition(b, "half-open")
    ELSE b

\* The breaker after getState(); the value returned is its state field.
getState(b, o, t) ==
    IF b.state = "open" /\ t - b.lastFailureTime >= o.resetTimeoutMs
    THEN transition(b, "half-open")
    ELSE b

\* [cb |-> the breaker after isAllowed(), ret |-> the value returned]
\* threw: getState() let the exception of onStateChange through, and
\* isAllowed() returned nothing
isAllowed(b, o, t) ==
    LET b1 == getState(b, o, t) IN
    IF transitionThrows(b, b1, o) THEN [cb |-> b1, ret |-> FALSE, threw |-> TRUE]
    ELSE IF b1.state = "closed" THEN [cb |-> b1, ret |-> TRUE, threw |-> FALSE]
    ELSE IF b1.state = "half-open"
    THEN [cb |-> [b1 EXCEPT !.halfOpenAttempts = @ + 1],
          ret |-> b1.halfOpenAttempts + 1 <= 1, threw |-> FALSE]
    ELSE [cb |-> b1, ret |-> FALSE, threw |-> FALSE]

\* <<number of failures in the window, length of the window>>, 0 when empty
getFailureRate(b) ==
    IF Len(b.failures) = 0 THEN <<0, 1>>
    ELSE <<Cardinality({i \in 1..Len(b.failures) : b.failures[i]}),
           Len(b.failures)>>

\* recordSuccess() that closes the breaker without clearing the window
recordSuccess_KeepsWindow(b, o) ==
    LET b1 == [b EXCEPT !.failures = trimWindow(Append(@, FALSE), o.windowSize)] IN
    IF b1.state = "half-open" THEN transition(b1, "closed") ELSE b1

\* recordSuccess() that closes the breaker from open as well
recordSuccess_ClosesOpen(b, o) ==
    LET b1 == [b EXCEPT !.failures = trimWindow(Append(@, FALSE), o.windowSize)] IN
    IF b1.state # "closed"
    THEN [transition(b1, "closed") EXCEPT !.failures = <<>>]
    ELSE b1

recordSuccess(b, o) ==
    LET b1 == [b EXCEPT !.failures = trimWindow(Append(@, FALSE), o.windowSize)]
        b2 == transition(b1, "closed")
    IN
    IF b1.state = "half-open"
    THEN IF transitionThrows(b1, b2, o) THEN b2
         ELSE [b2 EXCEPT !.failures = <<>>]
    ELSE b1

\* recordFailure() that opens only above the threshold
recordFailure_StrictThreshold(b, o, t) ==
    LET b1 == [b EXCEPT !.failures = trimWindow(Append(@, TRUE), o.windowSize),
                        !.lastFailureTime = t] IN
    IF b1.state = "half-open" THEN transition(b1, "open")
    ELSE IF b1.state = "closed" /\ Len(b1.failures) >= o.windowSize
            /\ RatGT[getFailureRate(b1), o.failureThreshold]
    THEN transition(b1, "open")
    ELSE b1

recordFailure(b, o, t) ==
    LET b1 == [b EXCEPT !.failures = trimWindow(Append(@, TRUE), o.windowSize),
                        !.lastFailureTime = t] IN
    IF b1.state = "half-open" THEN transition(b1, "open")
    ELSE IF b1.state = "closed" /\ Len(b1.failures) >= o.windowSize
            /\ RatGE[getFailureRate(b1), o.failureThreshold]
    THEN transition(b1, "open")
    ELSE b1

reset(b) ==
    transition([b EXCEPT !.failures = <<>>, !.halfOpenAttempts = 0], "closed")

----------------------------------------------------------------------------
(* AdaptiveRetryBudget: budget, failureRate and the numeric options are   *)
(* doubles, and the arithmetic on them is that of doubles.                 *)

\* The cost debited for an admitted retry: 0.01
RetryCost == DblFromRat[<<1, 100>>]
\* The smoothing factor of the failure rate
emaAlpha == DblFromRat[<<1, 10>>]
\* 1 - this.emaAlpha
emaKept == DblSub[DblOne, emaAlpha]
\* The change of the budget that onBudgetChange is called above: 0.001
BudgetChangeNoticed == DblFromRat[<<1, 1000>>]

NewAdaptiveRetryBudget(o) ==
    [budget |-> o.initialBudget, failureRate |-> DblZero,
     totalRequests |-> 0, successfulRequests |-> 0, failedRequests |-> 0,
     totalRetries |-> 0, adjustmentTimer |-> TRUE]

\* recordOutcome() that counts a failed request as a successful one
recordOutcome_CountsFailureAsSuccess(m, success) ==
    LET failed == IF success THEN DblZero ELSE DblOne
    IN [m EXCEPT !.totalRequests = @ + 1,
                 !.successfulRequests = @ + 1,
                 !.failureRate = DblAdd[DblMul[emaKept, @], DblMul[emaAlpha, failed]]]

\* failureRate = (1 - emaAlpha) * failureRate + emaAlpha * failed
recordOutcome(m, success) ==
    LET failed == IF success THEN DblZero ELSE DblOne
    IN [m EXCEPT !.totalRequests = @ + 1,
                 !.successfulRequests = IF success THEN @ + 1 ELSE @,
                 !.failedRequests = IF success THEN @ ELSE @ + 1,
                 !.failureRate = DblAdd[DblMul[emaKept, @], DblMul[emaAlpha, failed]]]

\* Math.random() < Math.min(budget, 1 - failureRate) can come out as
\* `admit`: the draw is any double from 0 to the last one below 1
CanDraw(m, admit) ==
    LET retryProbability == DblMin[m.budget, DblSub[DblOne, m.failureRate]] IN
    IF admit THEN DblGT[retryProbability, DblZero]
    ELSE DblLT[retryProbability, DblOne]

\* shouldRetrySync() that admits whenever it is called
shouldRetrySync_AlwaysAdmits(m, admit) ==
    [bm |-> [m EXCEPT !.budget = DblMax[DblZero, DblSub[@, RetryCost]],
                      !.totalRetries = @ + 1],
     ret |-> TRUE]

\* shouldRetrySync(), and shouldRetry() once the backpressure check has
\* passed, with the draw coming out as `admit`
shouldRetrySync(m, admit) ==
    IF DblLE[m.budget, DblZero] THEN [bm |-> m, ret |-> FALSE]
    ELSE IF admit
    THEN [bm |-> [m EXCEPT !.budget = DblMax[DblZero, DblSub[@, RetryCost]],
                           !.totalRetries = @ + 1],
          ret |-> TRUE]
    ELSE [bm |-> m, ret |-> FALSE]

\* shouldRetry() that does not look at the answer of checkBackpressure()
shouldRetry_IgnoresBackpressure(m, isBackpressured, admit) ==
    shouldRetrySync(m, admit)

\* shouldRetry() from the answer of checkBackpressure() on; the answer is
\* FALSE when no predicate is configured
shouldRetry(m, isBackpressured, admit) ==
    IF isBackpressured THEN [bm |-> m, ret |-> FALSE]
    ELSE shouldRetrySync(m, admit)

\* retryAmplificationFactor is the fraction <<totalRequests, baseRequests>>
getMetrics(m) ==
    LET baseRequests == m.totalRequests - m.totalRetries IN
    [totalRequests |-> m.totalRequests,
     successfulRequests |-> m.successfulRequests,
     failedRequests |-> m.failedRequests,
     totalRetries |-> m.totalRetries,
     failureRate |-> m.failureRate,
     retryAmplificationFactor |->
         IF baseRequests > 0 THEN Norm[<<m.totalRequests, baseRequests>>] ELSE One]

\* reset() that leaves the count of failed requests as it was
resetBudget_KeepsFailedRequests(m, o) ==
    [m EXCEPT !.budget = o.initialBudget, !.failureRate = DblZero,
              !.totalRequests = 0, !.successfulRequests = 0,
              !.totalRetries = 0]

\* AdaptiveRetryBudget.reset()
resetBudget(m, o) ==
    [m EXCEPT !.budget = o.initialBudget, !.failureRate = DblZero,
              !.totalRequests = 0, !.successfulRequests = 0,
              !.failedRequests = 0, !.totalRetries = 0]

dispose(m) == [m EXCEPT !.adjustmentTimer = FALSE]

\* The calls of onBudgetChange that adjustBudget() makes after it has moved
\* the budget from that of m to that of m2: one when the two differ by
\* more than 0.001
onBudgetChangeCalls(m, m2) ==
    IF DblGT[DblAbs[DblSub[m.budget, m2.budget]], BudgetChangeNoticed]
    THEN <<[budget |-> m2.budget, failureRate |-> m2.failureRate]>>
    ELSE <<>>

\* adjustBudget() that restores without the ceiling of initialBudget
adjustBudget_Uncapped(m, o) ==
    IF DblGT[m.failureRate, o.highFailureThreshold]
    THEN [m EXCEPT !.budget = DblMul[@, DblSub[DblOne, o.budgetDecreaseRate]]]
    ELSE IF DblLT[m.failureRate, o.lowFailureThreshold]
    THEN [m EXCEPT !.budget = DblAdd[@, o.budgetIncreaseRate]]
    ELSE m

\* adjustBudget() that lets the failure rate decay as it runs
adjustBudget_DecaysRate(m, o) ==
    LET m1 == [m EXCEPT !.failureRate = DblMul[emaKept, @]]
    IN
    IF DblGT[m.failureRate, o.highFailureThreshold]
    THEN [m1 EXCEPT !.budget = DblMul[@, DblSub[DblOne, o.budgetDecreaseRate]]]
    ELSE IF DblLT[m.failureRate, o.lowFailureThreshold]
    THEN [m1 EXCEPT !.budget = DblMin[o.initialBudget,
                                      DblAdd[@, o.budgetIncreaseRate]]]
    ELSE m1

\* adjustBudget() that never decreases the budget
adjustBudget_NoDecrease(m, o) ==
    IF DblLT[m.failureRate, o.lowFailureThreshold]
       /\ ~DblGT[m.failureRate, o.highFailureThreshold]
    THEN [m EXCEPT !.budget = DblMin[o.initialBudget,
                                     DblAdd[@, o.budgetIncreaseRate]]]
    ELSE m

adjustBudget(m, o) ==
    IF DblGT[m.failureRate, o.highFailureThreshold]
    THEN [m EXCEPT !.budget = DblMul[@, DblSub[DblOne, o.budgetDecreaseRate]]]
    ELSE IF DblLT[m.failureRate, o.lowFailureThreshold]
    THEN [m EXCEPT !.budget = DblMin[o.initialBudget,
                                     DblAdd[@, o.budgetIncreaseRate]]]
    ELSE m

----------------------------------------------------------------------------
(* Backoff *)

RatPow[q \in Rat, n \in Nat] == IF n = 0 THEN One ELSE RatMul[q, RatPow[q, n - 1]]

Whole(n) == <<n, 1>>

JitterStrategies == {"none", "full", "equal", "decorrelated"}

\* calculateBackoff that does not cap the exponential delay
calculateBackoff_Uncapped(attempt, initialDelayMs, maxDelayMs, multiplier, jitter, previousDelay, random) ==
    LET cappedDelay == RatMul[initialDelayMs, RatPow[multiplier, attempt]]
    IN CASE jitter = "none" -> cappedDelay
         [] jitter = "full" -> RatMul[random, cappedDelay]
         [] jitter = "equal" ->
              RatAdd[RatMul[cappedDelay, <<1, 2>>],
                     RatMul[RatMul[random, cappedDelay], <<1, 2>>]]
         [] OTHER -> cappedDelay

\* calculateBackoff with Math.random() returning `random`, 0 <= random < 1
calculateBackoff(attempt, initialDelayMs, maxDelayMs, multiplier, jitter, previousDelay, random) ==
    LET exponentialDelay == RatMul[initialDelayMs, RatPow[multiplier, attempt]]
        cappedDelay == RatMin[exponentialDelay, maxDelayMs]
        decorrelated ==
            RatAdd[RatMul[random, RatSub[RatMul[previousDelay, Whole(3)],
                                         initialDelayMs]],
                   initialDelayMs]
    IN CASE jitter = "none" -> cappedDelay
         [] jitter = "full" -> RatMul[random, cappedDelay]
         [] jitter = "equal" ->
              RatAdd[RatMul[cappedDelay, <<1, 2>>],
                     RatMul[RatMul[random, cappedDelay], <<1, 2>>]]
         [] jitter = "decorrelated" -> RatMin[decorrelated, maxDelayMs]
         [] OTHER -> cappedDelay

----------------------------------------------------------------------------
(* Retry orchestrator *)

Calls == 1..NumCalls
Variants == {"retry", "retryWithCircuitBreaker", "retryWithBudget",
             "retryWithProtection"}
UsesBreaker(v) == v \in {"retryWithCircuitBreaker", "retryWithProtection"}
UsesBudget(v) == v \in {"retryWithBudget", "retryWithProtection"}

\* What fn can reject with: Error objects, and a value that is not an Error
Thrown == {[name |-> "Error", message |-> "a"],
           [name |-> "raw", message |-> "b"]}
CircuitOpenError == [name |-> "CircuitOpenError", message |-> "Circuit breaker is open"]
CircuitOpenedError ==
    [name |-> "CircuitOpenError", message |-> "Circuit opened during retry sequence"]
TimeoutError == [name |-> "Error", message |-> "Operation timed out"]
NoError == [name |-> "", message |-> ""]
\* What a checkBackpressure() predicate that fails throws or rejects with
PredicateError == [name |-> "Error", message |-> "predicate failed"]
\* What an onRetry callback that throws throws
ObserverError == [name |-> "Error", message |-> "onRetry"]
\* The caller's onRetry callbacks: one that returns, one that throws
OnRetrys == {"returns", "throws"}

\* error instanceof Error ? error : new Error(String(error))
toError(x) == IF x.name = "raw" THEN [name |-> "Error", message |-> x.message] ELSE x

\* The caller's retry predicates: the default one, and one that accepts
\* only the errors with message "a"
RetryIfs == {"default", "onlyA"}
retryIf(p, e) ==
    CASE p = "default" -> TRUE
      [] p = "onlyA" -> e.message = "a"

NoResult == [kind |-> "none", name |-> "", message |-> ""]
Returned(v) == [kind |-> "value", name |-> "", message |-> v]
Raised(e) == [kind |-> "error", name |-> e.name, message |-> e.message]

\* The RetryResult object of retryWithResult: result or error is what
\* retry() settled with
RetryResult(success, settled, attempts) ==
    [success |-> success, attempts |-> attempts, settled |-> settled]
NoRetryResult == RetryResult(FALSE, NoResult, 0)

\* The arguments of a call of onRetry
OnRetryArgs(error, attempt, delayMs) ==
    [error |-> error, attempt |-> attempt, delayMs |-> delayMs]
NoOnRetryArgs == OnRetryArgs(NoError, 0, Zero)

\* The options of the calls that nothing in a specification varies: no
\* jitter, so that the delays are 1, 2, 3, 3, ...
DefaultRetryOptions ==
    [maxRetries |-> 3, retryIf |-> "default", timeoutMs |-> FALSE,
     onRetry |-> "returns", initialDelayMs |-> Whole(1), maxDelayMs |-> Whole(3),
     backoffMultiplier |-> Whole(2), jitter |-> "none"]

\* onRetryArgs and slept are not locals of the call: they hold what onRetry
\* and sleep were called with since the last failed attempt.
\* isBackpressured and shouldRetry are the constants of these names in
\* shouldRetry() and in the catch block awaiting it; rejection is what the
\* promise of shouldRetry() is rejected with, NoError when it is fulfilled.
IdleCall ==
    [variant |-> "none", pc |-> "idle", attempt |-> 0, lastError |-> NoError,
     previousDelay |-> Whole(1), onRetryArgs |-> NoOnRetryArgs, slept |-> Zero,
     isBackpressured |-> FALSE, shouldRetry |-> FALSE, rejection |-> NoError,
     settled |-> NoResult, result |-> NoResult, inFlight |-> 0,
     fnCalls |-> 0, failedAttempts |-> 0, thrown |-> NoError,
     recordFailures |-> 0, recordSuccesses |-> 0,
     outcomeFailures |-> 0, outcomeSuccesses |-> 0,
     timeouts |-> 0, onRetryCalls |-> 0, sleeps |-> 0,
     firstRejected |-> FALSE,
     breakerDenied |-> FALSE, ended |-> "no",
     attempts |-> 0, retryResult |-> NoRetryResult, aborted |-> FALSE]

\* One retry too many
exhausted_OffByOne(attempt, maxRetries) == attempt > maxRetries

\* attempt >= maxRetries: no retry is left
exhausted(attempt, maxRetries) == attempt >= maxRetries

\* A catch block that keeps the first error it saw
caught_KeepsFirstError(k, e) ==
    [k EXCEPT !.lastError = IF @ = NoError THEN toError(e) ELSE @,
              !.failedAttempts = @ + 1,
              !.onRetryArgs = NoOnRetryArgs, !.slept = Zero,
              !.firstRejected = IF k.failedAttempts = 0
                                THEN ~retryIf(options.retryIf, toError(e)) ELSE @]

\* The call has caught e: lastError, and what the attempt was
caught(k, e) ==
    [k EXCEPT !.lastError = toError(e), !.failedAttempts = @ + 1,
              !.onRetryArgs = NoOnRetryArgs, !.slept = Zero,
              !.firstRejected = IF k.failedAttempts = 0
                                THEN ~retryIf(options.retryIf, toError(e)) ELSE @]

\* retryWithResult passes retry() a wrappedFn that counts its invocations
\* before it invokes fn
wrappedFn(k) ==
    IF k.variant = "retryWithResult" THEN [k EXCEPT !.attempts = @ + 1] ELSE k

\* The call invokes fn: the attempt is in flight
invoke(k) ==
    [wrappedFn(k) EXCEPT !.pc = "infn", !.fnCalls = @ + 1, !.inFlight = @ + 1]

\* The call ends by raising e / returning v
finish(k, r, why) == [k EXCEPT !.pc = "done", !.result = r, !.ended = why]

\* retry() hands r to the function awaiting it (retryWithCircuitBreaker,
\* retryWithResult), or ends the call
settle(k, r, why) ==
    IF k.variant \in {"retryWithCircuitBreaker", "retryWithResult"}
    THEN [k EXCEPT !.pc = "outer", !.settled = r, !.ended = why]
    ELSE finish(k, r, why)

\* A backoff that does not await the sleep: the next attempt starts at once
backoff_SkipsSleep(k) ==
    LET delay == calculateBackoff(k.attempt, options.initialDelayMs,
                                  options.maxDelayMs, options.backoffMultiplier,
                                  options.jitter, k.previousDelay, Zero)
        k1 == [k EXCEPT !.previousDelay = delay, !.onRetryCalls = @ + 1,
                        !.onRetryArgs = OnRetryArgs(k.lastError, k.attempt + 1,
                                                    delay)]
    IN
    IF options.onRetry = "throws"
    THEN settle(k1, Raised(ObserverError), "onRetry")
    ELSE invoke([k1 EXCEPT !.attempt = @ + 1, !.sleeps = @ + 1, !.slept = delay])

\* A backoff that passes onRetry the index of the failed attempt
backoff_ZeroBasedAttempt(k) ==
    LET delay == calculateBackoff(k.attempt, options.initialDelayMs,
                                  options.maxDelayMs, options.backoffMultiplier,
                                  options.jitter, k.previousDelay, Zero)
        k1 == [k EXCEPT !.previousDelay = delay, !.onRetryCalls = @ + 1,
                        !.onRetryArgs = OnRetryArgs(k.lastError, k.attempt, delay)]
    IN
    IF options.onRetry = "throws"
    THEN settle(k1, Raised(ObserverError), "onRetry")
    ELSE [k1 EXCEPT !.pc = "sleep", !.sleeps = @ + 1, !.slept = delay]

\* calculateBackoff, onRetry and sleep(delay); an exception of onRetry
\* leaves the catch block it is called in.  The calls are made without
\* jitter, so the draw of Math.random() does not matter.
backoff(k) ==
    LET delay == calculateBackoff(k.attempt, options.initialDelayMs,
                                  options.maxDelayMs, options.backoffMultiplier,
                                  options.jitter, k.previousDelay, Zero)
        k1 == [k EXCEPT !.previousDelay = delay, !.onRetryCalls = @ + 1,
                        !.onRetryArgs = OnRetryArgs(k.lastError, k.attempt + 1,
                                                    delay)]
    IN
    IF options.onRetry = "throws"
    THEN settle(k1, Raised(ObserverError), "onRetry")
    ELSE [k1 EXCEPT !.pc = "sleep", !.sleeps = @ + 1, !.slept = delay]

\* [call, cb, bm] after shouldRetry() has run from the answer of
\* checkBackpressure() to its return: the promise the call awaits is
\* resolved, the call has not resumed
budgetDecision(k, b, m, isBackpressured, admit) ==
    LET d == shouldRetry(m, isBackpressured, admit) IN
    [call |-> [k EXCEPT !.pc = "asked", !.isBackpressured = isBackpressured,
                        !.shouldRetry = d.ret],
     cb |-> b, bm |-> d.bm]

\* shouldRetry() whose checkBackpressure() threw, or returned a promise
\* that rejected: the promise of shouldRetry() is rejected with the same;
\* budget and totalRetries are not reached
budgetRejection(k, b, m, e) ==
    [call |-> [k EXCEPT !.pc = "asked", !.rejection = e], cb |-> b, bm |-> m]

\* budgetManager.shouldRetry() up to its first await: the call of
\* checkBackpressure() when there is one, which throws or returns what
\* shouldRetry() awaits; the whole method otherwise
askBudget(k, b, m, admit, throws) ==
    IF budgetOptions.checkBackpressure
    THEN IF throws THEN budgetRejection(k, b, m, PredicateError)
         ELSE [call |-> [k EXCEPT !.pc = "bp"], cb |-> b, bm |-> m]
    ELSE budgetDecision(k, b, m, FALSE, admit)

\* A denial that raises an error of its own
budgetAnswer_RaisesBudgetError(k) ==
    LET k1 == [k EXCEPT !.isBackpressured = FALSE, !.shouldRetry = FALSE,
                        !.rejection = NoError]
    IN
    IF k.rejection # NoError THEN finish(k1, Raised(k.rejection), "checkBackpressure")
    ELSE IF k.shouldRetry THEN backoff(k1)
    ELSE finish(k1, Raised([name |-> "BudgetExhaustedError",
                            message |-> "Retry budget exhausted"]),
                IF k.isBackpressured THEN "backpressure" ELSE "budget")

\* The catch block from the await of shouldRetry() on (lines 240-257,
\* 339-356): the await throws what shouldRetry() was rejected with, and
\* the call, being in its catch block, ends with that
budgetAnswer(k) ==
    LET k1 == [k EXCEPT !.isBackpressured = FALSE, !.shouldRetry = FALSE,
                        !.rejection = NoError]
    IN
    IF k.rejection # NoError THEN finish(k1, Raised(k.rejection), "checkBackpressure")
    ELSE IF k.shouldRetry THEN backoff(k1)
    ELSE finish(k1, Raised(k.lastError),
                IF k.isBackpressured THEN "backpressure" ELSE "budget")

\* The catch block of retry(), with retryWithCircuitBreaker's retryIf
\* wrapper when the call has a breaker (lines 56-80, 157-167)
retryCatch(k, b, m, e) ==
    LET k1 == caught(k, e)
        wraps == k.variant = "retryWithCircuitBreaker"
    IN
    IF exhausted(k1.attempt, options.maxRetries)
    THEN [call |-> settle(k1, Raised(k1.lastError), "exhausted"), cb |-> b, bm |-> m]
    ELSE
    LET b1 == IF wraps THEN recordFailure(b, cbOptions, now) ELSE b
        a == IF wraps THEN isAllowed(b1, cbOptions, now) ELSE [cb |-> b, ret |-> TRUE]
        k2 == IF wraps THEN [k1 EXCEPT !.recordFailures = @ + 1] ELSE k1
    IN
    IF ~a.ret
    THEN [call |-> settle([k2 EXCEPT !.breakerDenied =
                                         retryIf(options.retryIf, k1.lastError)],
                          Raised(k1.lastError), "breaker"),
          cb |-> a.cb, bm |-> m]
    ELSE IF ~retryIf(options.retryIf, k1.lastError)
    THEN [call |-> settle(k2, Raised(k1.lastError), "predicate"), cb |-> a.cb, bm |-> m]
    ELSE [call |-> backoff(k2), cb |-> a.cb, bm |-> m]

\* A catch block of retryWithBudget that does not consult retryIf
budgetCatch_IgnoresPredicate(k, b, m, e, admit, throws) ==
    LET k1 == [caught(k, e) EXCEPT !.outcomeFailures = @ + 1]
        m1 == recordOutcome(m, FALSE)
    IN
    IF exhausted(k1.attempt, options.maxRetries)
    THEN [call |-> finish(k1, Raised(k1.lastError), "exhausted"), cb |-> b, bm |-> m1]
    ELSE askBudget(k1, b, m1, admit, throws)

\* The catch block of retryWithBudget up to its await of shouldRetry()
\* (lines 230-240)
budgetCatch(k, b, m, e, admit, throws) ==
    LET k1 == [caught(k, e) EXCEPT !.outcomeFailures = @ + 1]
        m1 == recordOutcome(m, FALSE)
    IN
    IF exhausted(k1.attempt, options.maxRetries)
    THEN [call |-> finish(k1, Raised(k1.lastError), "exhausted"), cb |-> b, bm |-> m1]
    ELSE IF ~retryIf(options.retryIf, k1.lastError)
    THEN [call |-> finish(k1, Raised(k1.lastError), "predicate"), cb |-> b, bm |-> m1]
    ELSE askBudget(k1, b, m1, admit, throws)

\* A catch block of retryWithProtection that asks the budget before the
\* breaker
protectionCatch_BudgetFirst(k, b, m, e, admit, throws) ==
    LET k1 == [caught(k, e) EXCEPT !.recordFailures = @ + 1,
                                   !.outcomeFailures = @ + 1]
        b1 == recordFailure(b, cbOptions, now)
        m1 == recordOutcome(m, FALSE)
        d == shouldRetry(m1, FALSE, admit)
        a == isAllowed(b1, cbOptions, now)
    IN
    IF exhausted(k1.attempt, options.maxRetries)
    THEN [call |-> finish(k1, Raised(k1.lastError), "exhausted"), cb |-> b1, bm |-> m1]
    ELSE IF ~retryIf(options.retryIf, k1.lastError)
    THEN [call |-> finish(k1, Raised(k1.lastError), "predicate"), cb |-> b1, bm |-> m1]
    ELSE IF ~d.ret
    THEN [call |-> finish(k1, Raised(k1.lastError), "budget"), cb |-> b1, bm |-> d.bm]
    ELSE IF ~a.ret
    THEN [call |-> finish([k1 EXCEPT !.breakerDenied = TRUE],
                          Raised(CircuitOpenedError), "breaker"),
          cb |-> a.cb, bm |-> d.bm]
    ELSE [call |-> [k1 EXCEPT !.pc = "asked", !.shouldRetry = TRUE],
          cb |-> a.cb, bm |-> d.bm]

\* The catch block of retryWithProtection up to its await of
\* shouldRetry() (lines 321-339)
protectionCatch(k, b, m, e, admit, throws) ==
    LET k1 == [caught(k, e) EXCEPT !.recordFailures = @ + 1,
                                   !.outcomeFailures = @ + 1]
        b1 == recordFailure(b, cbOptions, now)
        m1 == recordOutcome(m, FALSE)
        a == isAllowed(b1, cbOptions, now)
    IN
    IF exhausted(k1.attempt, options.maxRetries)
    THEN [call |-> finish(k1, Raised(k1.lastError), "exhausted"), cb |-> b1, bm |-> m1]
    ELSE IF ~retryIf(options.retryIf, k1.lastError)
    THEN [call |-> finish(k1, Raised(k1.lastError), "predicate"), cb |-> b1, bm |-> m1]
    ELSE IF ~a.ret
    THEN [call |-> finish([k1 EXCEPT !.breakerDenied = TRUE],
                          Raised(CircuitOpenedError), "breaker"),
          cb |-> a.cb, bm |-> m1]
    ELSE askBudget(k1, a.cb, m1, admit, throws)

\* The attempt of call k failed with e (fn rejected, or the timeout won)
attemptFailed(k, b, m, e, admit, throws) ==
    CASE k.variant = "retryWithBudget" -> budgetCatch(k, b, m, e, admit, throws)
      [] k.variant = "retryWithProtection" -> protectionCatch(k, b, m, e, admit, throws)
      [] OTHER -> retryCatch(k, b, m, e)

\* The attempt of call k returned v
attemptSucceeded(k, b, m, v) ==
    CASE k.variant = "retryWithBudget" ->
           [call |-> finish([k EXCEPT !.outcomeSuccesses = @ + 1], Returned(v), "success"),
            cb |-> b, bm |-> recordOutcome(m, TRUE)]
      [] k.variant = "retryWithProtection" ->
           [call |-> finish([k EXCEPT !.outcomeSuccesses = @ + 1,
                                      !.recordSuccesses = @ + 1],
                            Returned(v), "success"),
            cb |-> recordSuccess(b, cbOptions), bm |-> recordOutcome(m, TRUE)]
      [] OTHER -> [call |-> settle(k, Returned(v), "success"), cb |-> b, bm |-> m]

\* The continuation of an await on a settled promise is queued as a
\* microtask: no timer fires before it has run
MicrotaskPending == \E c \in Calls : calls[c].pc \in {"asked", "outer"}

\* What a call of checkBackpressure() can do besides returning: throw,
\* where there is a predicate to call
PredicateThrows == IF budgetOptions.checkBackpressure THEN BOOLEAN ELSE {FALSE}

\* The draw of Math.random() in shouldRetry() may come out as admit
Draw(m, admit) ==
    IF DblGT[m.budget, DblZero] THEN CanDraw(m, admit) ELSE ~admit

\* The draws a shouldRetry() on budget m can make before its first await:
\* none when it has a predicate to await first
DrawsAtOnce(m) ==
    IF budgetOptions.checkBackpressure THEN {FALSE}
    ELSE {admit \in BOOLEAN : Draw(m, admit)}

\* Call c goes on with r.call, on the breaker r.cb and the budget r.bm;
\* nothing else changes
Apply(c, r) ==
    /\ UNCHANGED <<now, cbOptions, obsVars, directOps, budgetOptions,
                   adjustments, askVars, options, bpVars, fired,
                   backoffCall>>
    /\ \E after \in {r} :
        /\ calls' = [calls EXCEPT ![c] = after.call]
        /\ circuitBreaker' = afterCall(after.cb)
        /\ budgetManager' = after.bm

\* A start whose pre-flight rejection is caught and recorded as a failure
Start_RecordsRejection(c, v) ==
    /\ calls[c].pc = "idle"
    /\ \A d \in Calls : d < c => calls[d].pc # "idle"
    /\ LET k == [calls[c] EXCEPT !.variant = v,
                                 !.previousDelay = options.initialDelayMs]
           a == IF UsesBreaker(v) THEN isAllowed(circuitBreaker, cbOptions, now)
                ELSE [cb |-> circuitBreaker, ret |-> TRUE]
       IN Apply(c, IF a.ret
                   THEN [call |-> invoke(k), cb |-> a.cb, bm |-> budgetManager]
                   ELSE [call |-> finish([k EXCEPT !.recordFailures = @ + 1],
                                         Raised(CircuitOpenError), "preflight"),
                         cb |-> recordFailure(a.cb, cbOptions, now),
                         bm |-> budgetManager])

\* A caller starts call c as variant v: the pre-flight check of the breaker,
\* then the first invocation of fn.  Calls are numbered in the order they
\* start.
Start(c, v) ==
    /\ calls[c].pc = "idle"
    /\ \A d \in Calls : d < c => calls[d].pc # "idle"
    /\ LET k == [calls[c] EXCEPT !.variant = v,
                                 !.previousDelay = options.initialDelayMs]
           a == IF UsesBreaker(v) THEN isAllowed(circuitBreaker, cbOptions, now)
                ELSE [cb |-> circuitBreaker, ret |-> TRUE]
       IN Apply(c, [call |-> IF a.ret THEN invoke(k)
                             ELSE finish(k, Raised(CircuitOpenError), "preflight"),
                    cb |-> a.cb, bm |-> budgetManager])

\* fn resolves
FnResolve(c) ==
    /\ calls[c].pc = "infn"
    /\ Apply(c, attemptSucceeded([calls[c] EXCEPT !.inFlight = @ - 1],
                                 circuitBreaker, budgetManager, "ok"))

\* fn rejects with e
FnReject(c, e) ==
    /\ calls[c].pc = "infn"
    /\ LET k == [calls[c] EXCEPT !.inFlight = @ - 1, !.thrown = e]
           m == IF UsesBudget(k.variant) THEN recordOutcome(budgetManager, FALSE)
                ELSE budgetManager
       IN \E admit \in DrawsAtOnce(m), throws \in PredicateThrows :
            Apply(c, attemptFailed(k, circuitBreaker, budgetManager, e, admit,
                                   throws))

\* A timeout that ends the call instead of failing the attempt
FnTimeout_EndsCall(c) ==
    /\ calls[c].pc = "infn"
    /\ options.timeoutMs
    /\ ~MicrotaskPending
    /\ Apply(c, [call |-> finish(caught([calls[c] EXCEPT !.timeouts = @ + 1,
                                                         !.thrown = TimeoutError],
                                        TimeoutError),
                                 Raised(TimeoutError), "timeout"),
                 cb |-> circuitBreaker, bm |-> budgetManager])

\* The timeout of withTimeout fires before fn has settled
FnTimeout(c) ==
    /\ calls[c].pc = "infn"
    /\ options.timeoutMs
    /\ ~MicrotaskPending
    /\ LET m == IF UsesBudget(calls[c].variant)
                THEN recordOutcome(budgetManager, FALSE) ELSE budgetManager
       IN \E admit \in DrawsAtOnce(m), throws \in PredicateThrows :
            Apply(c, attemptFailed([calls[c] EXCEPT !.timeouts = @ + 1,
                                                   !.thrown = TimeoutError],
                                   circuitBreaker, budgetManager,
                                   TimeoutError, admit, throws))

\* An invocation of fn that lost the race against its timeout settles
FnSettlesLate(c) ==
    /\ calls[c].inFlight > (IF calls[c].pc = "infn" THEN 1 ELSE 0)
    /\ calls' = [calls EXCEPT ![c].inFlight = @ - 1]
    /\ UNCHANGED <<now, cbVars, obsVars, directOps, budgetVars, askVars, options,
                   bpVars, fired,
                   backoffCall>>

\* checkBackpressure() answers; shouldRetry() goes on to the budget
BackpressureAnswer(c, isBackpressured) ==
    /\ calls[c].pc = "bp"
    /\ \E admit \in BOOLEAN :
        /\ Apply(c, budgetDecision(calls[c], circuitBreaker, budgetManager,
                                    isBackpressured, admit))
        /\ Draw(budgetManager, admit)

\* The promise checkBackpressure() returned rejects: the await in
\* shouldRetry() throws, and shouldRetry() rejects with the same
BackpressureRejects(c) ==
    /\ calls[c].pc = "bp"
    /\ Apply(c, budgetRejection(calls[c], circuitBreaker, budgetManager,
                                PredicateError))

\* The call resumes after its await of shouldRetry()
BudgetAnswer(c) ==
    /\ calls[c].pc = "asked"
    /\ Apply(c, [call |-> budgetAnswer(calls[c]), cb |-> circuitBreaker,
                 bm |-> budgetManager])

\* The backoff sleep ends: the next attempt
Wake(c) ==
    /\ calls[c].pc = "sleep"
    /\ ~MicrotaskPending
    /\ Apply(c, [call |-> invoke([calls[c] EXCEPT !.attempt = @ + 1]),
                 cb |-> circuitBreaker, bm |-> budgetManager])

\* The caller of call c aborts the AbortSignal it holds.  RetryOptions has
\* no field for a signal and no statement of the call reads one: aborted
\* is the caller's own state
Abort(c) ==
    /\ calls[c].pc \notin {"idle", "done"}
    /\ ~calls[c].aborted
    /\ calls' = [calls EXCEPT ![c].aborted = TRUE]
    /\ UNCHANGED <<now, cbVars, obsVars, directOps, budgetVars, askVars, options,
                   bpVars, fired,
                   backoffCall>>

\* retryWithResult that lets the error of retry() through
retryResult_Rethrows(k) ==
    IF k.settled.kind = "value"
    THEN finish([k EXCEPT !.retryResult = RetryResult(TRUE, k.settled, k.attempts)],
                Returned("RetryResult"), k.ended)
    ELSE finish(k, k.settled, k.ended)

\* retryWithResult after its await of retry(): the object it returns
retryResult(k) ==
    finish([k EXCEPT !.retryResult =
                         RetryResult(k.settled.kind = "value",
                                     IF k.settled.kind = "value" THEN k.settled
                                     ELSE Raised(toError(k.settled)),
                                     k.attempts)],
           Returned("RetryResult"), k.ended)

\* retryWithResult resumes after its await of retry()
ResultReturns(c) ==
    /\ calls[c].pc = "outer"
    /\ calls[c].variant = "retryWithResult"
    /\ Apply(c, [call |-> retryResult(calls[c]), cb |-> circuitBreaker,
                 bm |-> budgetManager])

\* retryWithCircuitBreaker resumes after its await of retry()
Outer(c) ==
    /\ calls[c].pc = "outer"
    /\ calls[c].variant = "retryWithCircuitBreaker"
    /\ LET k == calls[c] IN
       Apply(c, IF k.settled.kind = "value"
                THEN [call |-> finish([k EXCEPT !.recordSuccesses = @ + 1],
                                      k.settled, k.ended),
                      cb |-> recordSuccess(circuitBreaker, cbOptions),
                      bm |-> budgetManager]
                ELSE [call |-> finish([k EXCEPT !.recordFailures = @ + 1],
                                      k.settled, k.ended),
                      cb |-> recordFailure(circuitBreaker, cbOptions, now),
                      bm |-> budgetManager])

\* Another user of the shared breaker calls one of its methods
BreakerOps == {"getState", "isAllowed", "recordSuccess", "recordFailure", "reset"}

OtherCaller(op) ==
    /\ directOps > 0
    /\ directOps' = directOps - 1
    /\ circuitBreaker.halfOpenAttempts < MaxHalfOpenAttempts
    /\ circuitBreaker' = afterCall(
         CASE op = "getState" -> getState(circuitBreaker, cbOptions, now)
           [] op = "isAllowed" -> isAllowed(circuitBreaker, cbOptions, now).cb
           [] op = "recordSuccess" -> recordSuccess(circuitBreaker, cbOptions)
           [] op = "recordFailure" -> recordFailure(circuitBreaker, cbOptions, now)
           [] op = "reset" -> reset(circuitBreaker))
    /\ UNCHANGED <<now, cbOptions, obsVars, budgetVars, askVars, callVars,
                   bpVars, fired,
                   backoffCall>>

\* The interval timer of the budget fires.  Only the runs that change the
\* budget are counted.
AdjustBudget ==
    /\ budgetManager.adjustmentTimer
    /\ ~MicrotaskPending
    /\ adjustments < MaxAdjustments
    /\ budgetManager' = adjustBudget(budgetManager, budgetOptions)
    /\ adjustments' = IF budgetManager' = budgetManager THEN adjustments
                      ELSE adjustments + 1
    /\ UNCHANGED <<now, cbVars, obsVars, directOps, budgetOptions, askVars,
                   callVars, bpVars, fired,
                   backoffCall>>

----------------------------------------------------------------------------
(* Observation of the breaker by its callers *)

\* The history of recorded outcomes, kept up to MaxHist entries.
Remember(h, failed) == IF Len(h) >= MaxHist THEN h ELSE Append(h, failed)

\* The stay in half-open after a step from breaker b to breaker b2.
EntersHalfOpen(b, b2) == b.state # "half-open" /\ b2.state = "half-open"

StaysAfter(b, b2) ==
    IF EntersHalfOpen(b, b2) /\ hoStays < 2 THEN hoStays + 1 ELSE hoStays

AnswersAfter(b, b2) ==
    IF b2.state # "half-open" \/ EntersHalfOpen(b, b2) THEN <<>> ELSE hoAnswers

----------------------------------------------------------------------------
(* Direct use of the breaker *)

Did(op, value) == [op |-> op, ret |-> value, from |-> circuitBreaker.state]

\* A direct operation leaves everything but the breaker alone
Direct ==
    UNCHANGED <<now, cbOptions, directOps, budgetVars, askVars, callVars, bpVars,
                backoffCall>>

Tick ==
    /\ now < MaxTime
    /\ now' = now + 1
    /\ UNCHANGED <<cbVars, obsVars, directOps, budgetVars, askVars, callVars,
                   bpVars, fired,
                   backoffCall>>

GetState ==
    LET b2 == getState(circuitBreaker, cbOptions, now) IN
    /\ Direct
    /\ circuitBreaker' = afterCall(b2)
    /\ fired' = b2.notified
    /\ last' = Did("getState", b2.state)
    /\ hoAnswers' = AnswersAfter(circuitBreaker, b2)
    /\ hoStays' = StaysAfter(circuitBreaker, b2)
    /\ UNCHANGED <<hist, failedAt>>

IsAllowed ==
    LET r == isAllowed(circuitBreaker, cbOptions, now) IN
    /\ Direct
    /\ circuitBreaker.halfOpenAttempts < MaxHalfOpenAttempts
    /\ circuitBreaker' = afterCall(r.cb)
    /\ fired' = r.cb.notified
    /\ last' = Did("isAllowed", r.ret)
    /\ hoAnswers' = IF r.cb.state # "half-open" THEN <<>>
                    ELSE IF r.threw THEN AnswersAfter(circuitBreaker, r.cb)
                    ELSE Append(AnswersAfter(circuitBreaker, r.cb), r.ret)
    /\ hoStays' = StaysAfter(circuitBreaker, r.cb)
    /\ UNCHANGED <<hist, failedAt>>

RecordSuccess ==
    LET b2 == recordSuccess(circuitBreaker, cbOptions) IN
    /\ Direct
    /\ circuitBreaker' = afterCall(b2)
    /\ fired' = b2.notified
    /\ last' = Did("recordSuccess", "void")
    /\ hist' = Remember(hist, FALSE)
    /\ hoAnswers' = AnswersAfter(circuitBreaker, b2)
    /\ hoStays' = StaysAfter(circuitBreaker, b2)
    /\ UNCHANGED failedAt

RecordFailure ==
    LET b2 == recordFailure(circuitBreaker, cbOptions, now) IN
    /\ Direct
    /\ circuitBreaker' = afterCall(b2)
    /\ fired' = b2.notified
    /\ last' = Did("recordFailure", "void")
    /\ hist' = Remember(hist, TRUE)
    /\ hoAnswers' = AnswersAfter(circuitBreaker, b2)
    /\ hoStays' = StaysAfter(circuitBreaker, b2)
    /\ failedAt' = now

Reset ==
    LET b2 == reset(circuitBreaker) IN
    /\ Direct
    /\ circuitBreaker' = afterCall(b2)
    /\ fired' = b2.notified
    /\ last' = Did("reset", "void")
    /\ hist' = [i \in 1..MaxHist |-> FALSE]
    /\ hoAnswers' = AnswersAfter(circuitBreaker, b2)
    /\ hoStays' = StaysAfter(circuitBreaker, b2)
    /\ UNCHANGED failedAt

----------------------------------------------------------------------------
(* Direct use of the budget *)

DidBudget(op, value) == [op |-> op, ret |-> value]

\* sinceTick after a shouldRetry() or shouldRetrySync() that returned ret
Answered(ret) == [sinceTick EXCEPT !.admitted = IF ret THEN @ + 1 ELSE @]
\* sinceTick after a tick or a reset() that left the budget m
Restarted(m) == [budget |-> m.budget, admitted |-> 0]

\* A direct operation leaves everything but the budget and its callers alone
DirectBudget ==
    UNCHANGED <<now, cbVars, obsVars, directOps, budgetOptions, callVars, bpVars,
                backoffCall>>

RecordOutcome(success) ==
    /\ DirectBudget
    /\ budgetManager.totalRequests < MaxRequests
    /\ budgetManager' = recordOutcome(budgetManager, success)
    /\ lastBudgetOp' = DidBudget("recordOutcome", FALSE)
    /\ fired' = <<>>
    /\ UNCHANGED <<adjustments, asking, sinceTick>>

ShouldRetrySync ==
    /\ DirectBudget
    /\ \E admit \in BOOLEAN :
        LET d == shouldRetrySync(budgetManager, admit) IN
        /\ Draw(budgetManager, admit)
        /\ budgetManager' = d.bm
        /\ lastBudgetOp' = DidBudget("shouldRetrySync", d.ret)
        /\ sinceTick' = Answered(d.ret)
        /\ fired' = <<>>
    /\ UNCHANGED <<adjustments, asking>>

\* shouldRetry() up to its await of checkBackpressure(), to its rejection
\* when checkBackpressure() throws, or to its end when no predicate is
\* configured
ShouldRetry ==
    /\ DirectBudget
    /\ IF budgetOptions.checkBackpressure
       THEN \E throws \in PredicateThrows :
            /\ asking < MaxAsking
            /\ asking' = IF throws THEN asking ELSE asking + 1
            /\ lastBudgetOp' = DidBudget(IF throws THEN "shouldRetry:rejects"
                                         ELSE "checkBackpressure", FALSE)
            /\ fired' = <<>>
            /\ UNCHANGED <<budgetManager, sinceTick>>
       ELSE \E admit \in BOOLEAN :
            LET d == shouldRetry(budgetManager, FALSE, admit) IN
            /\ Draw(budgetManager, admit)
            /\ budgetManager' = d.bm
            /\ lastBudgetOp' = DidBudget("shouldRetry", d.ret)
            /\ sinceTick' = Answered(d.ret)
            /\ fired' = <<>>
            /\ UNCHANGED asking
    /\ UNCHANGED adjustments

\* checkBackpressure() answers one of the awaiting shouldRetry() calls
ShouldRetryResumes(isBackpressured) ==
    /\ DirectBudget
    /\ asking > 0
    /\ asking' = asking - 1
    /\ \E admit \in BOOLEAN :
        LET d == shouldRetry(budgetManager, isBackpressured, admit) IN
        /\ Draw(budgetManager, admit)
        /\ budgetManager' = d.bm
        /\ lastBudgetOp' = DidBudget(IF isBackpressured THEN "shouldRetry:overload"
                                     ELSE "shouldRetry", d.ret)
        /\ sinceTick' = Answered(d.ret)
        /\ fired' = <<>>
    /\ UNCHANGED adjustments

\* The promise of checkBackpressure() rejects: the awaiting shouldRetry()
\* rejects with the same before it has read or written the budget
ShouldRetryRejects ==
    /\ DirectBudget
    /\ asking > 0
    /\ asking' = asking - 1
    /\ lastBudgetOp' = DidBudget("shouldRetry:rejects", FALSE)
    /\ fired' = <<>>
    /\ UNCHANGED <<budgetManager, sinceTick, adjustments>>

ResetBudget ==
    /\ DirectBudget
    /\ budgetManager' = resetBudget(budgetManager, budgetOptions)
    /\ lastBudgetOp' = DidBudget("reset", FALSE)
    /\ sinceTick' = Restarted(budgetManager')
    /\ fired' = <<>>
    /\ UNCHANGED <<adjustments, asking>>

Dispose ==
    /\ DirectBudget
    /\ budgetManager' = dispose(budgetManager)
    /\ lastBudgetOp' = DidBudget("dispose", FALSE)
    /\ fired' = <<>>
    /\ UNCHANGED <<adjustments, asking, sinceTick>>

\* A timer that goes on firing after dispose()
BudgetTick_IgnoresDispose ==
    /\ DirectBudget
    /\ adjustments < MaxAdjustments
    /\ budgetManager' = adjustBudget(budgetManager, budgetOptions)
    /\ adjustments' = IF budgetManager' = budgetManager THEN adjustments
                      ELSE adjustments + 1
    /\ lastBudgetOp' = DidBudget("adjustBudget", FALSE)
    /\ sinceTick' = Restarted(budgetManager')
    /\ fired' = onBudgetChangeCalls(budgetManager, budgetManager')
    /\ UNCHANGED asking

\* The interval timer fires while the budget is used directly
BudgetTick ==
    /\ DirectBudget
    /\ budgetManager.adjustmentTimer
    /\ adjustments < MaxAdjustments
    /\ budgetManager' = adjustBudget(budgetManager, budgetOptions)
    /\ adjustments' = IF budgetManager' = budgetManager THEN adjustments
                      ELSE adjustments + 1
    /\ lastBudgetOp' = DidBudget("adjustBudget", FALSE)
    /\ sinceTick' = Restarted(budgetManager')
    /\ fired' = onBudgetChangeCalls(budgetManager, budgetManager')
    /\ UNCHANGED asking

----------------------------------------------------------------------------
(* BackpressureManager *)

ServiceIds == {"a", "b"}

\* Option values the manager is constructed with: signalTtlMs in ticks of
\* the clock, overloadThreshold 0.8
SignalTtls == {1}
OverloadThresholds == {<<4, 5>>}
DefaultBackpressureOptions == [signalTtlMs |-> 1, overloadThreshold |-> <<4, 5>>]

\* A JavaScript number, NaN or undefined
Number(q) == [kind |-> "number", value |-> q]
NaN == [kind |-> "NaN", value |-> Zero]
Undefined == [kind |-> "undefined", value |-> Zero]

\* What get(name) returns for a header: null when the header is missing
Null == "<null>"
LoadLevelHeaders == {Null, "", "0.5", "0.8", "high"}
RetryAfterHeaders == {Null, "2"}
SheddingHeaders == {Null, "1", "false"}
Headers ==
    [loadLevel : LoadLevelHeaders, retryAfter : RetryAfterHeaders,
     shedding : SheddingHeaders]
NoHeaders == [loadLevel |-> Null, retryAfter |-> Null, shedding |-> Null]

\* parseFloat on the header values above
parseFloat(str) ==
    CASE str = "0.5" -> Number(<<1, 2>>)
      [] str = "0.8" -> Number(<<4, 5>>)
      [] str = "2" -> Number(<<2, 1>>)
      [] OTHER -> NaN

\* str ? ... : ... takes the first branch for a non-empty string
Truthy(str) == str # Null /\ str # ""

\* x * 1000
Times1000(x) ==
    IF x.kind = "number" THEN Number(RatMul[x.value, <<1000, 1>>]) ELSE x

\* x >= q
NumberGE(x, q) == x.kind = "number" /\ RatGE[x.value, q]

\* An entry of the map; stored is FALSE for an id the map has no entry for
NoSignal ==
    [stored |-> FALSE, isOverloaded |-> FALSE, loadLevel |-> Undefined,
     retryAfterMs |-> Undefined, timestamp |-> 0]
Signal(isOverloaded, loadLevel, retryAfterMs) ==
    [stored |-> TRUE, isOverloaded |-> isOverloaded, loadLevel |-> loadLevel,
     retryAfterMs |-> retryAfterMs, timestamp |-> 0]

\* The signals a caller hands to recordSignal(): isOverloaded is the caller's
\* word, whatever load level comes with it; loadLevel and retryAfterMs are
\* optional
LoadLevels == {Undefined, Number(<<9, 10>>)}
RetryAfters == {Undefined, Number(<<500, 1>>)}
Signals ==
    {Signal(isOverloaded, loadLevel, retryAfterMs) :
       isOverloaded \in BOOLEAN, loadLevel \in LoadLevels,
       retryAfterMs \in RetryAfters}

NewBackpressureManager == [id \in ServiceIds |-> NoSignal]

recordSignal(sigs, serviceId, signal, t) ==
    [sigs EXCEPT ![serviceId] = [signal EXCEPT !.timestamp = t]]

\* recordFromHeaders() that records whatever the headers hold
recordFromHeaders_AlwaysRecords(sigs, o, serviceId, headers, t) ==
    LET loadLevel == IF Truthy(headers.loadLevel)
                     THEN parseFloat(headers.loadLevel) ELSE Undefined
        retryAfterMs == IF Truthy(headers.retryAfter)
                        THEN Times1000(parseFloat(headers.retryAfter))
                        ELSE Undefined
        isShedding == headers.shedding = "true" \/ headers.shedding = "1"
    IN recordSignal(sigs, serviceId,
                    Signal(isShedding
                             \/ (loadLevel # Undefined
                                   /\ NumberGE(loadLevel, o.overloadThreshold)),
                           loadLevel, retryAfterMs), t)

recordFromHeaders(sigs, o, serviceId, headers, t) ==
    LET loadLevel == IF Truthy(headers.loadLevel)
                     THEN parseFloat(headers.loadLevel) ELSE Undefined
        retryAfterMs == IF Truthy(headers.retryAfter)
                        THEN Times1000(parseFloat(headers.retryAfter))
                        ELSE Undefined
        isShedding == headers.shedding = "true" \/ headers.shedding = "1"
    IN IF loadLevel # Undefined \/ retryAfterMs # Undefined \/ isShedding
       THEN recordSignal(sigs, serviceId,
                         Signal(isShedding
                                  \/ (loadLevel # Undefined
                                        /\ NumberGE(loadLevel, o.overloadThreshold)),
                                loadLevel, retryAfterMs), t)
       ELSE sigs

\* getSignal() that drops a signal as soon as its age reaches signalTtlMs
getSignal_StrictTtl(sigs, o, serviceId, t) ==
    LET signal == sigs[serviceId] IN
    IF ~signal.stored THEN [signals |-> sigs, ret |-> NoSignal]
    ELSE IF t - signal.timestamp >= o.signalTtlMs
    THEN [signals |-> [sigs EXCEPT ![serviceId] = NoSignal], ret |-> NoSignal]
    ELSE [signals |-> sigs, ret |-> signal]

\* [signals |-> the map after getSignal(), ret |-> the signal returned,
\* NoSignal for undefined]
getSignal(sigs, o, serviceId, t) ==
    LET signal == sigs[serviceId] IN
    IF ~signal.stored THEN [signals |-> sigs, ret |-> NoSignal]
    ELSE IF t - signal.timestamp > o.signalTtlMs
    THEN [signals |-> [sigs EXCEPT ![serviceId] = NoSignal], ret |-> NoSignal]
    ELSE [signals |-> sigs, ret |-> signal]

\* [signals, ret |-> the boolean returned]
isOverloaded(sigs, o, serviceId, t) ==
    LET g == getSignal(sigs, o, serviceId, t) IN
    [signals |-> g.signals,
     ret |-> IF ~g.ret.stored THEN FALSE ELSE g.ret.isOverloaded]

\* [signals, ret |-> the number returned, Undefined for undefined]:
\* signal?.loadLevel
getLoadLevel(sigs, o, serviceId, t) ==
    LET g == getSignal(sigs, o, serviceId, t) IN
    [signals |-> g.signals,
     ret |-> IF ~g.ret.stored THEN Undefined ELSE g.ret.loadLevel]

\* [signals, ret |-> the number returned, Undefined for undefined]:
\* signal?.retryAfterMs
getRetryAfterMs(sigs, o, serviceId, t) ==
    LET g == getSignal(sigs, o, serviceId, t) IN
    [signals |-> g.signals,
     ret |-> IF ~g.ret.stored THEN Undefined ELSE g.ret.retryAfterMs]

clear(sigs) == NewBackpressureManager

\* The operations that look an entry up through getSignal()
Lookups == {"getSignal", "isOverloaded", "getLoadLevel", "getRetryAfterMs"}

\* found: the entry that a lookup found in the map; value: the number
\* that getLoadLevel() or getRetryAfterMs() returned
DidSignal(op, serviceId, headers, ret, overloaded) ==
    [op |-> op, id |-> serviceId, headers |-> headers, ret |-> ret,
     overloaded |-> overloaded, value |-> Undefined,
     found |-> IF op \in Lookups THEN signals[serviceId] ELSE NoSignal]

\* An operation on the manager leaves everything else alone
DirectBackpressure ==
    UNCHANGED <<now, cbVars, obsVars, directOps, budgetVars, askVars, callVars,
                bpOptions, fired, backoffCall>>

RecordSignal(serviceId, signal) ==
    /\ DirectBackpressure
    /\ signals' = recordSignal(signals, serviceId, signal, now)
    /\ lastSignalOp' = DidSignal("recordSignal", serviceId, NoHeaders, NoSignal,
                                 FALSE)

RecordFromHeaders(serviceId, headers) ==
    /\ DirectBackpressure
    /\ signals' = recordFromHeaders(signals, bpOptions, serviceId, headers, now)
    /\ lastSignalOp' = DidSignal("recordFromHeaders", serviceId, headers,
                                 NoSignal, FALSE)

GetSignal(serviceId) ==
    LET g == getSignal(signals, bpOptions, serviceId, now) IN
    /\ DirectBackpressure
    /\ signals' = g.signals
    /\ lastSignalOp' = DidSignal("getSignal", serviceId, NoHeaders, g.ret, FALSE)

IsOverloaded(serviceId) ==
    LET g == isOverloaded(signals, bpOptions, serviceId, now) IN
    /\ DirectBackpressure
    /\ signals' = g.signals
    /\ lastSignalOp' = DidSignal("isOverloaded", serviceId, NoHeaders, NoSignal,
                                 g.ret)

GetLoadLevel(serviceId) ==
    LET g == getLoadLevel(signals, bpOptions, serviceId, now) IN
    /\ DirectBackpressure
    /\ signals' = g.signals
    /\ lastSignalOp' = [DidSignal("getLoadLevel", serviceId, NoHeaders, NoSignal,
                                  FALSE) EXCEPT !.value = g.ret]

GetRetryAfterMs(serviceId) ==
    LET g == getRetryAfterMs(signals, bpOptions, serviceId, now) IN
    /\ DirectBackpressure
    /\ signals' = g.signals
    /\ lastSignalOp' = [DidSignal("getRetryAfterMs", serviceId, NoHeaders,
                                  NoSignal, FALSE) EXCEPT !.value = g.ret]

Clear ==
    /\ DirectBackpressure
    /\ signals' = clear(signals)
    /\ lastSignalOp' = DidSignal("clear", "a", NoHeaders, NoSignal, FALSE)

----------------------------------------------------------------------------
(* Direct use of calculateBackoff *)

\* Values the arguments are drawn from: durations in ms, multipliers below,
\* at and above 1, and the draws of Math.random(), which are in [0, 1)
InitialDelays == {Whole(1), Whole(100)}
MaxDelays == {Whole(0), Whole(150), Whole(30000)}
Multipliers == {<<1, 2>>, One, Whole(2)}
Randoms == {Zero, <<1, 2>>, <<999, 1000>>}

\* No call of calculateBackoff was made
NoBackoffCall ==
    [attempt |-> 0, initialDelayMs |-> Zero, maxDelayMs |-> Zero,
     multiplier |-> One, jitter |-> "none", previousDelay |-> Zero,
     random |-> Zero, delay |-> Zero, returned |-> FALSE]

\* The arguments of a call; a call without previousDelay is one with
\* previousDelay = initialDelayMs (backoff.ts:52)
BackoffCalls ==
    {[NoBackoffCall EXCEPT !.attempt = a, !.initialDelayMs = i,
                           !.maxDelayMs = m, !.multiplier = x, !.jitter = j,
                           !.previousDelay = IF threaded THEN RatMul[i, Whole(2)] ELSE i] :
       a \in 0..MaxAttempt, i \in InitialDelays, m \in MaxDelays,
       x \in Multipliers, j \in JitterStrategies, threaded \in BOOLEAN}

\* calculateBackoff runs on the arguments and returns
CalculateBackoff ==
    /\ ~backoffCall.returned
    /\ \E random \in Randoms :
         backoffCall' =
           [backoffCall EXCEPT
              !.random = random,
              !.delay = calculateBackoff(backoffCall.attempt,
                                         backoffCall.initialDelayMs,
                                         backoffCall.maxDelayMs,
                                         backoffCall.multiplier,
                                         backoffCall.jitter,
                                         backoffCall.previousDelay, random),
              !.returned = TRUE]
    /\ UNCHANGED <<now, cbVars, obsVars, directOps, budgetVars, askVars, callVars,
                   bpVars, fired>>

----------------------------------------------------------------------------
(* Specifications *)

DefaultBudgetOptions ==
    [initialBudget |-> DblFromRat[<<1, 5>>],
     budgetIncreaseRate |-> DblFromRat[<<1, 10>>],
     budgetDecreaseRate |-> DblFromRat[<<1, 2>>],
     highFailureThreshold |-> DblFromRat[<<3, 10>>],
     lowFailureThreshold |-> DblFromRat[<<1, 20>>], checkBackpressure |-> FALSE]

InitObjects ==
    /\ now = StartTime
    /\ circuitBreaker = NewCircuitBreaker
    /\ last = [op |-> "new", ret |-> "void", from |-> "closed"]
    /\ hist = <<>>
    /\ hoAnswers = <<>>
    /\ hoStays = 0
    /\ failedAt = 0
    /\ adjustments = 0
    /\ asking = 0
    /\ lastBudgetOp = [op |-> "new", ret |-> FALSE]
    /\ sinceTick = [budget |-> budgetManager.budget, admitted |-> 0]
    /\ fired = <<>>
    /\ signals = NewBackpressureManager
    /\ lastSignalOp = [op |-> "new", id |-> "a", headers |-> NoHeaders,
                       ret |-> NoSignal, overloaded |-> FALSE,
                       value |-> Undefined, found |-> NoSignal]
    /\ calls = [c \in Calls |-> IdleCall]

\* No direct call of calculateBackoff is made
InitCommon ==
    /\ InitObjects
    /\ backoffCall = NoBackoffCall

\* calculateBackoff alone, called on arguments of any kind
InitBackoff ==
    /\ cbOptions = [windowSize |-> 10, failureThreshold |-> <<1, 2>>,
                    resetTimeoutMs |-> 30000, onStateChange |-> "returns"]
    /\ budgetOptions = DefaultBudgetOptions
    /\ bpOptions = DefaultBackpressureOptions
    /\ budgetManager = NewAdaptiveRetryBudget(budgetOptions)
    /\ options = DefaultRetryOptions
    /\ directOps = 0
    /\ InitObjects
    /\ backoffCall \in BackoffCalls

NextBackoff == CalculateBackoff

SpecBackoff == InitBackoff /\ [][NextBackoff]_vars

\* The breaker alone, used directly by any number of callers
InitCB ==
    /\ cbOptions \in [windowSize : WindowSizes, failureThreshold : Thresholds,
                      resetTimeoutMs : ResetTimeouts,
                      onStateChange : {"returns"}]
    /\ budgetOptions = DefaultBudgetOptions
    /\ bpOptions = DefaultBackpressureOptions
    /\ budgetManager = NewAdaptiveRetryBudget(budgetOptions)
    /\ options = DefaultRetryOptions
    /\ directOps = 0
    /\ InitCommon

NextCB ==
    \/ Tick
    \/ GetState
    \/ IsAllowed
    \/ RecordSuccess
    \/ RecordFailure
    \/ Reset

SpecCB == InitCB /\ [][NextCB]_vars

\* The breaker alone, constructed with an onStateChange that throws
InitCBObserver ==
    /\ cbOptions \in [windowSize : WindowSizes, failureThreshold : {<<1, 2>>},
                      resetTimeoutMs : {1}, onStateChange : {"throws"}]
    /\ budgetOptions = DefaultBudgetOptions
    /\ bpOptions = DefaultBackpressureOptions
    /\ budgetManager = NewAdaptiveRetryBudget(budgetOptions)
    /\ options = DefaultRetryOptions
    /\ directOps = 0
    /\ InitCommon

SpecCBObserver == InitCBObserver /\ [][NextCB]_vars

\* Option values the budget is constructed with.
InitialBudgets == {DblZero, DblFromRat[<<1, 100>>], DblFromRat[<<1, 50>>]}
IncreaseRates == {DblFromRat[<<1, 10>>], DblFromRat[<<-1, 100>>]}
DecreaseRates == {DblZero, DblFromRat[<<1, 2>>], DblOne}

\* The budget alone, used directly by any number of callers
InitBudget ==
    /\ cbOptions = [windowSize |-> 10, failureThreshold |-> <<1, 2>>,
                    resetTimeoutMs |-> 30000, onStateChange |-> "returns"]
    /\ budgetOptions \in
         {[DefaultBudgetOptions EXCEPT !.initialBudget = b,
                                       !.budgetIncreaseRate = i,
                                       !.budgetDecreaseRate = d,
                                       !.checkBackpressure = p] :
            b \in InitialBudgets, i \in IncreaseRates, d \in DecreaseRates,
            p \in BOOLEAN}
    /\ budgetManager = NewAdaptiveRetryBudget(budgetOptions)
    /\ bpOptions = DefaultBackpressureOptions
    /\ options = DefaultRetryOptions
    /\ directOps = 0
    /\ InitCommon

NextBudget ==
    \/ \E success \in BOOLEAN : RecordOutcome(success)
    \/ ShouldRetrySync
    \/ ShouldRetry
    \/ \E isBackpressured \in BOOLEAN : ShouldRetryResumes(isBackpressured)
    \/ ShouldRetryRejects
    \/ ResetBudget
    \/ Dispose
    \/ BudgetTick

SpecBudget == InitBudget /\ [][NextBudget]_vars

\* The budget alone, with a positive initialBudget and budgetIncreaseRate;
\* the interval timer goes on firing for as long as it is not cleared
InitRecovery ==
    /\ cbOptions = [windowSize |-> 10, failureThreshold |-> <<1, 2>>,
                    resetTimeoutMs |-> 30000, onStateChange |-> "returns"]
    /\ budgetOptions \in
         {[DefaultBudgetOptions EXCEPT !.initialBudget = DblFromRat[<<1, 50>>],
                                       !.budgetDecreaseRate = d,
                                       !.checkBackpressure = p] :
            d \in DecreaseRates \ {DblZero}, p \in BOOLEAN}
    /\ budgetManager = NewAdaptiveRetryBudget(budgetOptions)
    /\ bpOptions = DefaultBackpressureOptions
    /\ options = DefaultRetryOptions
    /\ directOps = 0
    /\ InitCommon

SpecRecovery == InitRecovery /\ [][NextBudget]_vars /\ WF_vars(BudgetTick)

\* The budget alone, constructed with the initialBudget 0.12 and the
\* defaults for the rest: more than ten retries use it up
InitDrain ==
    /\ cbOptions = [windowSize |-> 10, failureThreshold |-> <<1, 2>>,
                    resetTimeoutMs |-> 30000, onStateChange |-> "returns"]
    /\ budgetOptions \in
         {[DefaultBudgetOptions EXCEPT !.initialBudget = DblFromRat[<<3, 25>>],
                                       !.checkBackpressure = p] : p \in BOOLEAN}
    /\ budgetManager = NewAdaptiveRetryBudget(budgetOptions)
    /\ bpOptions = DefaultBackpressureOptions
    /\ options = DefaultRetryOptions
    /\ directOps = 0
    /\ InitCommon

SpecDrain == InitDrain /\ [][NextBudget]_vars

\* What the callers pass to the orchestrated calls and to the shared
\* breaker and budget.  timeoutMs is set: a call without it behaves as one
\* whose timeout never fires.
\* The budget after n failed outcomes were recorded on it
RECURSIVE AfterFailures(_, _)
AfterFailures(m, n) ==
    IF n = 0 THEN m ELSE AfterFailures(recordOutcome(m, FALSE), n - 1)

\* Failed outcomes that earlier traffic left on the shared budget: none, or
\* enough to put the failure rate above highFailureThreshold
PriorFailures == {0, 4}

InitOptions(windowSizes, initialBudgets, priorFailures, onRetrys) ==
    /\ cbOptions \in [windowSize : windowSizes, failureThreshold : {<<1, 2>>},
                      resetTimeoutMs : {1}, onStateChange : {"returns"}]
    /\ budgetOptions \in
         {[DefaultBudgetOptions EXCEPT !.initialBudget = b,
                                       !.checkBackpressure = p] :
            b \in initialBudgets, p \in BOOLEAN}
    /\ budgetManager \in
         {AfterFailures(NewAdaptiveRetryBudget(budgetOptions), n) :
            n \in priorFailures}
    /\ options \in
         {[DefaultRetryOptions EXCEPT !.maxRetries = r, !.retryIf = p,
                                      !.timeoutMs = TRUE, !.onRetry = f] :
            r \in 0..MaxRetriesBound, p \in RetryIfs, f \in onRetrys}
    /\ bpOptions = DefaultBackpressureOptions

CallStep(c) ==
    \/ \E v \in Variants : Start(c, v)
    \/ FnResolve(c)
    \/ \E e \in Thrown : FnReject(c, e)
    \/ FnTimeout(c)
    \/ FnSettlesLate(c)
    \/ \E p \in BOOLEAN : BackpressureAnswer(c, p)
    \/ BackpressureRejects(c)
    \/ BudgetAnswer(c)
    \/ Wake(c)
    \/ Outer(c)

\* One orchestrated call on a breaker and a budget that other callers use
\* directly while it runs
Init ==
    /\ InitOptions({1, 2}, {DblFromRat[<<1, 50>>]}, PriorFailures, {"returns"})
    /\ directOps = MaxDirectOps
    /\ InitCommon

Next ==
    \/ Tick
    \/ \E op \in BreakerOps : OtherCaller(op)
    \/ AdjustBudget
    \/ CallStep(1)

Spec == Init /\ [][Next]_vars

\* Every fn invocation settles or times out, every sleep ends and an
\* awaiting function resumes once what it awaits has settled.  Nothing ends
\* the wait for checkBackpressure(): the promise the caller's predicate
\* returns may stay pending for ever.
Fairness ==
    /\ WF_vars(FnResolve(1) \/ (\E e \in Thrown : FnReject(1, e)) \/ FnTimeout(1))
    /\ WF_vars(BudgetAnswer(1))
    /\ WF_vars(Wake(1))
    /\ WF_vars(Outer(1))

\* One orchestrated call on a breaker that another caller uses once while
\* it runs
InitFair ==
    /\ InitOptions({1, 2}, {DblFromRat[<<1, 50>>]}, PriorFailures, {"returns"})
    /\ directOps = 1
    /\ InitCommon

FairSpec == InitFair /\ [][Next]_vars /\ Fairness

\* One orchestrated call whose onRetry callback may throw
InitObservers ==
    /\ InitOptions({2}, {DblFromRat[<<1, 50>>]}, PriorFailures, OnRetrys)
    /\ directOps = 0
    /\ InitCommon

NextObservers ==
    \/ Tick
    \/ AdjustBudget
    \/ CallStep(1)

SpecObservers == InitObservers /\ [][NextObservers]_vars

\* One orchestrated call whose onRetry callback may throw, on a breaker and
\* a budget that other callers use directly while it runs
InitOnRetry ==
    /\ InitOptions({2}, {DblFromRat[<<1, 50>>]}, {0}, OnRetrys)
    /\ directOps = MaxDirectOps
    /\ InitCommon

SpecOnRetry == InitOnRetry /\ [][Next]_vars

\* Orchestrated calls running concurrently on one breaker and one budget
InitConcurrent ==
    /\ InitOptions({2}, {DblFromRat[<<1, 100>>]}, PriorFailures \ {0}, {"returns"})
    /\ directOps = 0
    /\ InitCommon

NextConcurrent ==
    \/ Tick
    \/ AdjustBudget
    \/ \E c \in Calls : CallStep(c)

SpecConcurrent == InitConcurrent /\ [][NextConcurrent]_vars

\* Two concurrent orchestrated calls on a budget that is new when the first
\* of them starts
InitNewBudget ==
    /\ InitOptions({2}, {DblFromRat[<<1, 50>>]}, {0}, {"returns"})
    /\ directOps = 0
    /\ InitCommon

SpecNewBudget == InitNewBudget /\ [][NextConcurrent]_vars

\* One call of retryWithResult
InitResult ==
    /\ InitOptions({2}, {DblFromRat[<<1, 50>>]}, {0}, {"returns"})
    /\ directOps = 0
    /\ InitCommon

NextResult ==
    \/ Tick
    \/ Start(1, "retryWithResult")
    \/ FnResolve(1)
    \/ \E e \in Thrown : FnReject(1, e)
    \/ FnTimeout(1)
    \/ FnSettlesLate(1)
    \/ Wake(1)
    \/ ResultReturns(1)

SpecResult == InitResult /\ [][NextResult]_vars

\* One orchestrated call whose caller may abort it
InitCancel ==
    /\ InitOptions({2}, {DblFromRat[<<1, 50>>]}, {0}, {"returns"})
    /\ directOps = 0
    /\ InitCommon

NextCancel ==
    \/ Tick
    \/ CallStep(1)
    \/ Abort(1)

SpecCancel == InitCancel /\ [][NextCancel]_vars

\* The BackpressureManager alone
InitBackpressure ==
    /\ cbOptions = [windowSize |-> 10, failureThreshold |-> <<1, 2>>,
                    resetTimeoutMs |-> 30000, onStateChange |-> "returns"]
    /\ budgetOptions = DefaultBudgetOptions
    /\ budgetManager = NewAdaptiveRetryBudget(budgetOptions)
    /\ bpOptions \in [signalTtlMs : SignalTtls,
                      overloadThreshold : OverloadThresholds]
    /\ options = DefaultRetryOptions
    /\ directOps = 0
    /\ InitCommon

NextBackpressure ==
    \/ Tick
    \/ \E id \in ServiceIds, signal \in Signals : RecordSignal(id, signal)
    \/ \E id \in ServiceIds, headers \in Headers : RecordFromHeaders(id, headers)
    \/ \E id \in ServiceIds : GetSignal(id)
    \/ \E id \in ServiceIds : IsOverloaded(id)
    \/ \E id \in ServiceIds : GetLoadLevel(id)
    \/ \E id \in ServiceIds : GetRetryAfterMs(id)
    \/ Clear

SpecBackpressure == InitBackpressure /\ [][NextBackpressure]_vars

----------------------------------------------------------------------------
(* Claims about the budget used directly (SpecBudget) *)

\* The step is a direct shouldRetry() or shouldRetrySync() returning true
Admits ==
    /\ lastBudgetOp'.ret
    /\ lastBudgetOp' # lastBudgetOp \/ budgetManager' # budgetManager

\* C13: shouldRetry() and shouldRetrySync() return true only when the budget
\* is above 0 at the moment they decide, also when several shouldRetry()
\* calls resume from the backpressure check one after the other.
C13_NoRetryOnEmptyBudget ==
    [][Admits => DblGT[budgetManager.budget, DblZero]]_vars

\* A shouldRetry() that awaited the backpressure check found the budget
\* spent by the retries admitted meanwhile, and returned false
C13_Witness ==
    /\ budgetOptions.checkBackpressure
    /\ DblGT[budgetOptions.initialBudget, DblZero]
    /\ lastBudgetOp = DidBudget("shouldRetry", FALSE)
    /\ budgetManager.budget = DblZero
    /\ budgetManager.totalRetries = 2
    /\ adjustments = 0

\* The options C14 asks for: initialBudget >= 0, 0 <= budgetDecreaseRate <= 1
ValidBudgetOptions ==
    /\ DblGE[budgetOptions.initialBudget, DblZero]
    /\ DblGE[budgetOptions.budgetDecreaseRate, DblZero]
    /\ DblGE[DblOne, budgetOptions.budgetDecreaseRate]

\* 0 <= budget <= initialBudget
BudgetInRange ==
    /\ DblGE[budgetManager.budget, DblZero]
    /\ DblGE[budgetOptions.initialBudget, budgetManager.budget]

\* C14 as stated: with initialBudget >= 0 and 0 <= budgetDecreaseRate <= 1,
\* the budget stays within 0 and initialBudget after any interleaving of
\* recordOutcome, shouldRetry, shouldRetrySync, adjustment ticks and reset.
C14_Clamped == ValidBudgetOptions => BudgetInRange

\* C14 amended: with initialBudget >= 0, 0 <= budgetDecreaseRate <= 1 and
\* budgetIncreaseRate >= 0, the budget stays within 0 and initialBudget
\* after any interleaving of recordOutcome, shouldRetry, shouldRetrySync,
\* adjustment ticks and reset.
C14_ClampedWhenIncreaseIsNotNegative ==
    (ValidBudgetOptions /\ DblGE[budgetOptions.budgetIncreaseRate, DblZero])
    => BudgetInRange

\* A retry was admitted and a tick halved what was left of the budget
C14_Witness ==
    /\ DblGE[budgetOptions.budgetIncreaseRate, DblZero]
    /\ budgetOptions.initialBudget = DblFromRat[<<1, 50>>]
    /\ budgetOptions.budgetDecreaseRate = DblFromRat[<<1, 2>>]
    /\ budgetManager.totalRetries = 1
    /\ adjustments = 1
    /\ budgetManager.budget = DblFromRat[<<1, 200>>]

\* Only failures were recorded on a budget with initialBudget > 0, no
\* retry was admitted, and the last thing that happened is an adjustment tick
OnlyFailuresThenTick ==
    /\ DblGT[budgetOptions.initialBudget, DblZero]
    /\ budgetManager.failedRequests >= 1
    /\ budgetManager.successfulRequests = 0
    /\ budgetManager.totalRetries = 0
    /\ lastBudgetOp.op = "adjustBudget"

C17_OverloadDenies ==
    [][(lastBudgetOp'.op = "shouldRetry:overload" /\ asking' = asking - 1)
        => /\ ~lastBudgetOp'.ret
           /\ budgetManager'.budget = budgetManager.budget
           /\ budgetManager'.totalRetries = budgetManager.totalRetries]_vars

\* Overload was reported to a budget that is full and has seen no failure
C17_Witness ==
    /\ lastBudgetOp = DidBudget("shouldRetry:overload", FALSE)
    /\ budgetManager.budget = DblFromRat[<<1, 50>>]
    /\ budgetManager.failureRate = DblZero
    /\ budgetManager.totalRetries = 0

\* dispose() has been called
Disposed == ~budgetManager.adjustmentTimer

\* The step debits the budget for an admitted retry
Debits ==
    /\ lastBudgetOp'.op \in {"shouldRetry", "shouldRetrySync"}
    /\ lastBudgetOp'.ret
    /\ budgetManager'.budget = DblMax[DblZero, DblSub[budgetManager.budget, RetryCost]]

\* The step is reset()
Resets ==
    /\ lastBudgetOp'.op = "reset"
    /\ budgetManager'.budget = budgetOptions.initialBudget

\* C24: once dispose() has been called the periodic adjustment does not
\* run: the budget changes only in an admitted retry or in reset(), and
\* onBudgetChange is not called; reset() leaves the timer as it is.
C24_DisposeStopsAdjustment ==
    [][/\ Disposed =>
            /\ Disposed'
            /\ lastBudgetOp'.op # "adjustBudget"
            /\ budgetManager'.budget # budgetManager.budget => (Debits \/ Resets)
            /\ fired' = <<>>
       /\ lastBudgetOp'.op = "reset"
            => budgetManager'.adjustmentTimer = budgetManager.adjustmentTimer]_vars

\* A disposed budget was reset, saw four failures and admitted a retry: the
\* failure rate is above highFailureThreshold and no adjustment has run
C24_Witness ==
    /\ Disposed
    /\ DblGT[budgetManager.failureRate, budgetOptions.highFailureThreshold]
    /\ budgetOptions.budgetDecreaseRate = DblFromRat[<<1, 2>>]
    /\ budgetOptions.initialBudget = DblFromRat[<<1, 50>>]
    /\ budgetManager.budget = DblFromRat[<<1, 100>>]
    /\ budgetManager.totalRetries = 1
    /\ adjustments = 0

\* The step records no failure and admits no retry
QuietStep ==
    /\ budgetManager'.failedRequests <= budgetManager.failedRequests
    /\ budgetManager'.totalRetries <= budgetManager.totalRetries

\* C25: if the budget is never disposed and from some point on no failure
\* is recorded and no retry is admitted, the periodic adjustment brings the
\* budget back to initialBudget, and there it stays.
C25_BudgetRecovers ==
    ([]~Disposed /\ <>[][QuietStep]_vars)
    => <>[](budgetManager.budget = budgetOptions.initialBudget)

\* The step is a tick of the interval timer
Ticks == lastBudgetOp'.op = "adjustBudget" /\ BudgetTick

\* C34: a tick multiplies the budget by 1 - budgetDecreaseRate when the
\* failure rate is above highFailureThreshold, makes it
\* min(initialBudget, budget + budgetIncreaseRate) when the rate is below
\* lowFailureThreshold and leaves it as it is otherwise; it changes neither
\* the failure rate nor a counter.
C34_TickAdjustsBudgetOnly ==
    [][Ticks =>
        LET m == budgetManager
            o == budgetOptions
        IN
        /\ budgetManager'.budget =
             IF DblGT[m.failureRate, o.highFailureThreshold]
             THEN DblMul[m.budget, DblSub[DblOne, o.budgetDecreaseRate]]
             ELSE IF DblLT[m.failureRate, o.lowFailureThreshold]
             THEN IF DblGE[DblAdd[m.budget, o.budgetIncreaseRate], o.initialBudget]
                  THEN o.initialBudget
                  ELSE DblAdd[m.budget, o.budgetIncreaseRate]
             ELSE m.budget
        /\ budgetManager' = [m EXCEPT !.budget = budgetManager'.budget]
        /\ getMetrics(budgetManager') = getMetrics(m)]_vars

\* A tick has halved a budget of 0.02 that had recorded only failures
C34_Witness ==
    /\ lastBudgetOp.op = "adjustBudget"
    /\ adjustments = 1
    /\ budgetOptions.initialBudget = DblFromRat[<<1, 50>>]
    /\ budgetOptions.budgetDecreaseRate = DblFromRat[<<1, 2>>]
    /\ budgetManager.budget = DblFromRat[<<1, 100>>]
    /\ budgetManager.totalRetries = 0
    /\ budgetManager.failedRequests = budgetManager.totalRequests
    /\ DblGT[budgetManager.failureRate, budgetOptions.highFailureThreshold]

\* The step is a shouldRetry() or shouldRetrySync() that returns ret
Answers(ret) ==
    /\ lastBudgetOp'.op \in {"shouldRetry", "shouldRetrySync", "shouldRetry:overload"}
    /\ lastBudgetOp'.ret = ret

\* An admission debits 0.01, floored at 0, and counts one retry; a denial
\* changes neither the budget nor totalRetries
AnswerAccounts ==
    /\ Answers(TRUE)
         => /\ budgetManager'.budget = DblMax[DblZero, DblSub[budgetManager.budget, RetryCost]]
            /\ budgetManager'.totalRetries = budgetManager.totalRetries + 1
    /\ Answers(FALSE)
         => /\ budgetManager'.budget = budgetManager.budget
            /\ budgetManager'.totalRetries = budgetManager.totalRetries

\* -1, 0 or 1 as n * a is below, equal to or above b for a count n and the
\* magnitudes of the doubles a and b, the product being exact
ScaledCmp(n, a, b) ==
    LET e == IF a.exp < b.exp THEN a.exp ELSE b.exp
    IN BigCmp[BigShl[BigMul[BigFromInt[n], a.man], a.exp - e],
              BigShl[b.man, b.exp - e]]

\* -1, 0 or 1 as n * 0.01 is below, equal to or above the magnitude of b
CostsCmp(n, b) == ScaledCmp(n, RetryCost, b)

\* n <= ceil(b / 0.01) for a count n and a budget b, that is
\* (n - 1) * 0.01 < b; the quotient is that of the two doubles, not rounded
AtMostCeilOfCosts(n, b) ==
    IF n = 0 THEN ~b.neg \/ CostsCmp(1, b) > 0
    ELSE ~b.neg /\ CostsCmp(n - 1, b) < 0

\* C38: the shouldRetry() and shouldRetrySync() calls of all callers that
\* have returned true since a tick (or a reset(), or construction) are at
\* most ceil(b / 0.01) for the budget b it left; an admission lowers the
\* budget by 0.01, floored at 0, and raises totalRetries by 1, and a denial
\* changes neither.
C38_AdmissionsWithinCeiling ==
    [][/\ AtMostCeilOfCosts(sinceTick'.admitted, sinceTick'.budget)
       /\ AnswerAccounts]_vars

\* C31: whatever recordOutcome, shouldRetry, shouldRetrySync, adjustment
\* ticks and reset() were called, the failed and the successful requests
\* that getMetrics() reports add up to the total it reports.
C31_OutcomesAddUp ==
    LET metrics == getMetrics(budgetManager) IN
    metrics.failedRequests + metrics.successfulRequests = metrics.totalRequests

\* Successes and failures were recorded, a retry was admitted and an
\* adjustment has changed the budget
C31_Witness ==
    /\ budgetManager.failedRequests >= 2
    /\ budgetManager.successfulRequests >= 1
    /\ budgetManager.totalRetries >= 1
    /\ adjustments >= 1
    /\ lastBudgetOp.op = "recordOutcome"

----------------------------------------------------------------------------
(* Claims about calculateBackoff (SpecBackoff) *)

\* min(initialDelayMs * multiplier^attempt, maxDelayMs) of the call
Capped ==
    LET exponential == RatMul[backoffCall.initialDelayMs,
                              RatPow[backoffCall.multiplier, backoffCall.attempt]]
    IN IF RatGE[backoffCall.maxDelayMs, exponential] THEN exponential
       ELSE backoffCall.maxDelayMs

\* C33: the delay calculateBackoff returns is capped itself without
\* jitter, whatever Math.random() draws, between 0 and capped with full
\* jitter, and between capped / 2 and capped with equal jitter.
C33_DelayInRange ==
    backoffCall.returned =>
        /\ backoffCall.jitter = "none" => backoffCall.delay = Capped
        /\ backoffCall.jitter = "full"
             => RatGE[backoffCall.delay, Zero] /\ RatGE[Capped, backoffCall.delay]
        /\ backoffCall.jitter = "equal"
             => /\ RatGE[backoffCall.delay, RatMul[Capped, <<1, 2>>]]
                /\ RatGE[Capped, backoffCall.delay]

\* The fourth retry with equal jitter: 100 * 2^3 is capped at 150 and the
\* draw 1/2 gives 75 + 37.5
C33_Witness ==
    /\ backoffCall.returned
    /\ backoffCall.jitter = "equal"
    /\ backoffCall.attempt = 3
    /\ backoffCall.initialDelayMs = Whole(100)
    /\ backoffCall.multiplier = Whole(2)
    /\ backoffCall.maxDelayMs = Whole(150)
    /\ backoffCall.random = <<1, 2>>
    /\ backoffCall.delay = <<225, 2>>

----------------------------------------------------------------------------
(* Claims about the circuit breaker used directly (SpecCB) *)

\* resetTimeoutMs has elapsed since the most recent recordFailure()
Waited == now - failedAt >= cbOptions.resetTimeoutMs

\* The step is a direct call of the named operation
Calls_getState == last'.op = "getState" /\ GetState
Calls_isAllowed == last'.op = "isAllowed" /\ IsAllowed
Calls_recordFailure == last'.op = "recordFailure" /\ RecordFailure
Calls_reset == last'.op = "reset" /\ Reset
Calls_recordSuccess == last'.op = "recordSuccess" /\ RecordSuccess

\* The step is a direct call of an operation of the breaker
Calls_breaker ==
    \/ Calls_getState
    \/ Calls_isAllowed
    \/ Calls_recordFailure
    \/ Calls_reset
    \/ Calls_recordSuccess

\* C30: an operation of the breaker that changes its state calls
\* onStateChange once, with the new state, and an operation that leaves the
\* state as it was (recordFailure while open, reset while closed, a
\* repeated getState) does not call it.
C30_OnStateChangeOncePerChange ==
    [][Calls_breaker
        => fired' = IF circuitBreaker'.state # circuitBreaker.state
                    THEN <<circuitBreaker'.state>>
                    ELSE <<>>]_vars

\* recordFailure on a breaker with a window of failures has just opened
\* it and reported "open"
C30_Witness ==
    /\ last.op = "recordFailure"
    /\ circuitBreaker.state = "open"
    /\ Len(circuitBreaker.failures) >= 2
    /\ fired = <<"open">>

\* The options of the breaker with an onStateChange that returns
Quiet == [cbOptions EXCEPT !.onStateChange = "returns"]

\* C20: with an onStateChange that throws, recordSuccess, recordFailure,
\* getState and reset leave the breaker with the state, window and probe
\* counter they leave it with when the callback returns.
C20_ObserverCannotCorrupt ==
    [][/\ Calls_recordSuccess
           => circuitBreaker' = afterCall(recordSuccess(circuitBreaker, Quiet))
       /\ Calls_recordFailure
           => circuitBreaker' = afterCall(recordFailure(circuitBreaker, Quiet, now))
       /\ Calls_getState
           => circuitBreaker' = afterCall(getState(circuitBreaker, Quiet, now))
       /\ Calls_reset => circuitBreaker' = afterCall(reset(circuitBreaker))]_vars

\* C11: an open breaker becomes half-open exactly in a getState() or
\* isAllowed() call made when at least resetTimeoutMs has elapsed since the
\* most recent recordFailure; a call made earlier leaves it open, isAllowed()
\* answering false, and a recordFailure made while open leaves it open.
C11_HalfOpenAfterWait ==
    [][circuitBreaker.state = "open" =>
        /\ (circuitBreaker'.state = "half-open")
             <=> ((Calls_getState \/ Calls_isAllowed) /\ Waited)
        /\ (Calls_getState /\ Waited) => last'.ret = "half-open"
        /\ (Calls_getState /\ ~Waited) => last'.ret = "open"
        /\ (Calls_isAllowed /\ ~Waited)
             => (last'.ret = FALSE /\ circuitBreaker'.state = "open")
        /\ Calls_recordFailure => circuitBreaker'.state = "open"]_vars

\* The breaker went half-open after a wait that a failure recorded while
\* open had restarted
C11_Witness ==
    /\ cbOptions.windowSize = 1
    /\ hist = <<TRUE, TRUE>>
    /\ last.op = "getState"
    /\ last.from = "open"
    /\ circuitBreaker.state = "half-open"
    /\ failedAt > StartTime
    /\ now - failedAt = cbOptions.resetTimeoutMs

\* The changes of state the breaker is meant to make
Transitions ==
    {<<"closed", "open">>, <<"open", "half-open">>,
     <<"half-open", "closed">>, <<"half-open", "open">>}

\* C12: the state field changes only closed->open, open->half-open,
\* half-open->closed and half-open->open, or to closed in reset().
C12_OnlyThese ==
    [][circuitBreaker'.state # circuitBreaker.state =>
        \/ <<circuitBreaker.state, circuitBreaker'.state>> \in Transitions
        \/ Calls_reset /\ circuitBreaker'.state = "closed"]_vars

\* reset() has forced an open breaker closed
C12_Witness ==
    /\ last.op = "reset"
    /\ last.from = "open"
    /\ circuitBreaker.state = "closed"

\* The breaker has recorded exactly n outcomes since construction, never reset.
FreshOutcomes(n) == Len(hist) = n /\ n < MaxHist

\* <<failures, outcomes>> of the recorded history
HistRate ==
    <<Cardinality({i \in 1..Len(hist) : hist[i]}),
      IF Len(hist) = 0 THEN 1 ELSE Len(hist)>>

\* resetTimeoutMs has not elapsed since the most recent recordFailure
BeforeReset == now - circuitBreaker.lastFailureTime < cbOptions.resetTimeoutMs

ReportsOpen ==
    /\ getState(circuitBreaker, cbOptions, now).state = "open"
    /\ ~isAllowed(circuitBreaker, cbOptions, now).ret

\* C4 as stated: after exactly windowSize recorded outcomes, in any order,
\* whose fraction of failures is >= failureThreshold, and before
\* resetTimeoutMs has elapsed, getState() is open and isAllowed() is false.
C4_AnyOrder ==
    (FreshOutcomes(cbOptions.windowSize)
        /\ RatGE[HistRate, cbOptions.failureThreshold] /\ BeforeReset)
    => ReportsOpen

\* C4 amended: for a fresh breaker, after exactly windowSize recorded
\* outcomes whose fraction of failures is >= failureThreshold and whose last
\* outcome is a failure, and before resetTimeoutMs has elapsed since it,
\* getState() is open and isAllowed() is false.
C4_LastIsFailure ==
    (FreshOutcomes(cbOptions.windowSize)
        /\ RatGE[HistRate, cbOptions.failureThreshold]
        /\ hist[Len(hist)] /\ BeforeReset)
    => ReportsOpen

\* A window of three outcomes holding a success, tripped by its last failure
C4_Witness ==
    /\ FreshOutcomes(cbOptions.windowSize)
    /\ cbOptions.windowSize = 3
    /\ hist = <<TRUE, FALSE, TRUE>>
    /\ cbOptions.failureThreshold = <<2, 3>>
    /\ BeforeReset
    /\ circuitBreaker.state = "open"

\* The last n elements of f, all of f when it has fewer
LastN(f, n) == IF Len(f) <= n THEN f ELSE SubSeq(f, Len(f) - n + 1, Len(f))

\* w is the end of h
IsSuffix(w, h) == Len(w) <= Len(h) /\ w = LastN(h, Len(w))

\* C32: the window never holds more than windowSize outcomes.  A recorded
\* outcome goes to its end and what is beyond windowSize is dropped from
\* its front, unless the record closes the breaker and empties the window;
\* getState and isAllowed leave the window alone and reset() empties it.
\* So the window of a breaker never reset is the end of the outcomes
\* recorded on it.
C32_WindowHoldsMostRecent ==
    [][/\ Len(circuitBreaker'.failures) <= cbOptions.windowSize
       /\ Calls_recordSuccess
            => circuitBreaker'.failures
                 \in {<<>>, LastN(Append(circuitBreaker.failures, FALSE),
                                  cbOptions.windowSize)}
       /\ Calls_recordFailure
            => circuitBreaker'.failures
                 = LastN(Append(circuitBreaker.failures, TRUE), cbOptions.windowSize)
       /\ (Calls_getState \/ Calls_isAllowed)
            => circuitBreaker'.failures = circuitBreaker.failures
       /\ Calls_reset => circuitBreaker'.failures = <<>>
       /\ Len(hist') < MaxHist => IsSuffix(circuitBreaker'.failures, hist')]_vars

\* A closed breaker with a window of two has recorded a failure and two
\* successes: the failure has left the window
C32_Witness ==
    /\ cbOptions.windowSize = 2
    /\ hist = <<TRUE, FALSE, FALSE>>
    /\ circuitBreaker.failures = <<FALSE, FALSE>>
    /\ circuitBreaker.state = "closed"

\* C36: a half-open breaker stays half-open in every step but a
\* recordSuccess, a recordFailure or a reset, the passing of time included;
\* once it has admitted its probe, isAllowed() returns false whenever it is
\* called.
C36_HalfOpenWaitsForOutcome ==
    [][circuitBreaker.state = "half-open" =>
        /\ circuitBreaker'.state # "half-open"
             => (Calls_recordSuccess \/ Calls_recordFailure \/ Calls_reset)
        /\ (Calls_isAllowed /\ circuitBreaker.halfOpenAttempts >= 1)
             => (last'.ret = FALSE /\ circuitBreaker'.state = "half-open")]_vars

\* The probe was admitted, no outcome was recorded, and isAllowed() has
\* just refused a caller twice resetTimeoutMs after the last failure
C36_Witness ==
    /\ circuitBreaker.state = "half-open"
    /\ circuitBreaker.halfOpenAttempts >= 2
    /\ last.op = "isAllowed"
    /\ last.ret = FALSE
    /\ now - circuitBreaker.lastFailureTime >= 2 * cbOptions.resetTimeoutMs

\* C9: during one stay in half-open, isAllowed() answers true to the first
\* call after the entry and false to every later call, on every entry.
C9_OneProbePerStay ==
    /\ circuitBreaker.state # "half-open" => hoAnswers = <<>>
    /\ \A i \in 1..Len(hoAnswers) : hoAnswers[i] = (i = 1)

\* The second stay in half-open has answered its probe and refused a call
C9_Witness ==
    /\ circuitBreaker.state = "half-open"
    /\ hoStays = 2
    /\ hoAnswers = <<TRUE, FALSE>>

\* C10: in half-open the next recorded outcome decides the exit:
\* recordSuccess leaves the breaker closed with an empty window,
\* recordFailure leaves it open whatever the failure rate of the window.
C10_ProbeDecides ==
    /\ (last.op = "recordSuccess" /\ last.from = "half-open")
         => (circuitBreaker.state = "closed" /\ circuitBreaker.failures = <<>>)
    /\ (last.op = "recordFailure" /\ last.from = "half-open")
         => circuitBreaker.state = "open"

\* A failed probe reopens a breaker whose window is below the threshold
C10_Witness ==
    /\ last.op = "recordFailure"
    /\ last.from = "half-open"
    /\ ~RatGE[getFailureRate(circuitBreaker), cbOptions.failureThreshold]
    /\ circuitBreaker.state = "open"

----------------------------------------------------------------------------
(* Claims about the orchestrated calls *)

Done(c) == calls[c].pc = "done"
Succeeded(c) == calls[c].result.kind = "value"
Failed(c) == calls[c].result.kind = "error"

\* C1: retry() with the predicate that accepts every error, and no attempt
\* timed out: a call that returns has invoked fn once more than fn failed,
\* at most maxRetries + 1 times, and returns fn's value; a call that raises
\* has seen fn fail maxRetries + 1 times in as many invocations and raises
\* the error of the last one.
C1_RetryCounts ==
    \A c \in Calls :
        (Done(c) /\ calls[c].variant = "retry" /\ options.retryIf = "default"
            /\ calls[c].timeouts = 0)
        => /\ Succeeded(c) =>
                /\ calls[c].fnCalls = calls[c].failedAttempts + 1
                /\ calls[c].failedAttempts <= options.maxRetries
                /\ calls[c].result = Returned("ok")
           /\ Failed(c) =>
                /\ calls[c].fnCalls = options.maxRetries + 1
                /\ calls[c].failedAttempts = calls[c].fnCalls
                /\ calls[c].result.name = "Error"
                /\ calls[c].result.message = calls[c].thrown.message
           /\ Succeeded(c) \/ Failed(c)

\* fn failed on each of the maxRetries retries but the last, then succeeded
C1_Witness ==
    /\ Done(1) /\ calls[1].variant = "retry" /\ options.retryIf = "default"
    /\ calls[1].timeouts = 0
    /\ options.maxRetries = 2
    /\ calls[1].failedAttempts = 2
    /\ Succeeded(1)

\* C2: in every variant, when the caller's predicate rejects the error of
\* the first failed attempt, fn is invoked exactly once and the call ends
\* with an error.
C2_RejectedFirstFailure ==
    \A c \in Calls :
        calls[c].firstRejected
        => /\ calls[c].fnCalls = 1
           /\ calls[c].pc \in {"outer", "done"}
           /\ Done(c) => Failed(c)

\* The predicate rejected the first error of a protected call with retries left
C2_Witness ==
    /\ Done(1) /\ calls[1].firstRejected
    /\ calls[1].variant = "retryWithCircuitBreaker"
    /\ options.maxRetries = 2
    /\ calls[1].ended = "predicate"

\* Call c invokes fn no more often than maxRetries allows
WithinMaxRetries(c) == calls[c].fnCalls <= options.maxRetries + 1

\* Every wait of call c for checkBackpressure() ends
PredicateSettles(c) == (calls[c].pc = "bp") ~> (calls[c].pc # "bp")

\* C3 as stated: one orchestrated call invokes fn at most maxRetries + 1
\* times, and a call that has started ends, given that fn settles and sleeps
\* end.
C3_TerminatesWhateverThePredicate ==
    /\ [](\A c \in Calls : WithinMaxRetries(c))
    /\ \A c \in Calls : (calls[c].pc # "idle") ~> Done(c)

\* C3: one orchestrated call invokes fn at most maxRetries + 1 times, and a
\* call that has started ends, given that fn settles, sleeps end and every
\* call of the backpressure predicate settles.
C3_BoundedAndTerminates ==
    /\ [](\A c \in Calls : WithinMaxRetries(c))
    /\ PredicateSettles(1) => ((calls[1].pc # "idle") ~> Done(1))

\* A call with a backpressure predicate, which settled each time, used
\* every attempt it had
C3_Witness ==
    /\ Done(1) /\ calls[1].variant = "retryWithBudget"
    /\ budgetOptions.checkBackpressure
    /\ options.maxRetries = 2
    /\ calls[1].fnCalls = 3
    /\ calls[1].ended = "exhausted"

\* C5: no call with a breaker invokes fn while the breaker is open.
C5_BreakerGatesEveryAttempt ==
    [][\A c \in Calls :
         (UsesBreaker(calls'[c].variant)
             /\ calls'[c].fnCalls = calls[c].fnCalls + 1)
         => getState(circuitBreaker', cbOptions, now').state # "open"]_vars

\* C6: when the breaker denies the retry of an error the predicate accepts,
\* with retries left, the call raises CircuitOpenError.
C6_DenialRaisesCircuitOpen ==
    \A c \in Calls :
        (Done(c) /\ calls[c].breakerDenied)
        => calls[c].result.name = "CircuitOpenError"

\* C7: a call records on the breaker and on the budget one failure per
\* failed attempt, and one success exactly when it succeeds.
C7_OneRecordPerAttempt ==
    \A c \in Calls :
        Done(c)
        => /\ UsesBreaker(calls[c].variant) =>
                /\ calls[c].recordFailures = calls[c].failedAttempts
                /\ calls[c].recordSuccesses = IF Succeeded(c) THEN 1 ELSE 0
           /\ UsesBudget(calls[c].variant) =>
                /\ calls[c].outcomeFailures = calls[c].failedAttempts
                /\ calls[c].outcomeSuccesses = IF Succeeded(c) THEN 1 ELSE 0

\* No orchestrated call is running, and all that ran went through
\* retryWithBudget
OnlyBudgetTraffic ==
    \A c \in Calls :
        /\ calls[c].pc \in {"idle", "done"}
        /\ calls[c].variant \in {"none", "retryWithBudget"}

\* C15: whenever no call is in flight, the retries admitted to
\* retryWithBudget traffic are at most initialBudget times the base
\* traffic: totalRetries <= initialBudget * (totalRequests - totalRetries).
C15_RetryVolumeWithinBudget ==
    OnlyBudgetTraffic
    => ScaledCmp(budgetManager.totalRequests - budgetManager.totalRetries,
                 budgetOptions.initialBudget,
                 DblFromRat[<<budgetManager.totalRetries, 1>>]) >= 0

\* C37: on a budget that only retryWithBudget and retryWithProtection calls
\* use, however they interleave, the admitted retries are at most the
\* failed requests and these at most all requests, and the
\* retryAmplificationFactor that getMetrics() reports is at least 1.
C37_RetriesFollowFailures ==
    LET metrics == getMetrics(budgetManager) IN
    /\ metrics.totalRetries <= metrics.failedRequests
    /\ metrics.failedRequests <= metrics.totalRequests
    /\ RatGE[metrics.retryAmplificationFactor, One]

\* Two concurrent calls on a budget nothing was recorded on before: both
\* were admitted the retry of their first attempt and no other attempt has
\* ended, so every failed request has its retry
C37_Witness ==
    /\ \A c \in Calls : UsesBudget(calls[c].variant) /\ calls[c].sleeps = 1
    /\ budgetManager.totalRetries = 2
    /\ budgetManager.failedRequests = 2
    /\ getMetrics(budgetManager).retryAmplificationFactor = One

\* C26: failedRequests counts the calls that failed after all their
\* retries: a retryWithBudget call that ends in failure adds one to it,
\* however many of its attempts failed, and one that succeeds adds none.
C26_FailedRequestsCountsCalls ==
    (Done(1) /\ calls[1].variant = "retryWithBudget")
    => getMetrics(budgetManager).failedRequests - (IF Failed(1) THEN 1 ELSE 0)
         \in PriorFailures

\* C27: once the caller has cancelled a call, the call starts no further
\* invocation of fn and a backoff sleep in progress does not run to its end
\* and on to the next attempt.
C27_CancellationAborts ==
    [][\A c \in Calls :
         calls[c].aborted
         => /\ calls'[c].fnCalls = calls[c].fnCalls
            /\ calls[c].pc = "sleep" => calls'[c].pc # "infn"]_vars

\* The attempt of call c in flight times out in this step
TimesOut(c) == calls'[c].timeouts = calls[c].timeouts + 1

\* An invocation of fn settles in this step while call c is not awaiting fn
SettlesLate(c) ==
    /\ calls'[c].inFlight < calls[c].inFlight
    /\ calls[c].pc # "infn"

\* C28: an attempt that has not settled when the timeout fires is a failed
\* attempt with the timeout error: it is recorded as a failure and retried
\* as a rejection of fn would be; when the timed-out fn settles later, the
\* call, its result, the breaker and the budget stay as they are.
C28_TimeoutIsFailure ==
    [][\A c \in Calls :
        /\ TimesOut(c)
             => /\ calls'[c].failedAttempts = calls[c].failedAttempts + 1
                /\ calls'[c].lastError = TimeoutError
                /\ calls'[c].fnCalls = calls[c].fnCalls
                /\ (calls[c].variant = "retry"
                      /\ calls[c].attempt < options.maxRetries
                      /\ retryIf(options.retryIf, TimeoutError))
                     => calls'[c].pc = "sleep"
                /\ (calls[c].attempt >= options.maxRetries
                      \/ ~retryIf(options.retryIf, TimeoutError))
                     => /\ calls'[c].pc \in {"done", "outer"}
                        /\ Done(c)' => calls'[c].result = Raised(TimeoutError)
                /\ UsesBudget(calls[c].variant)
                     => budgetManager'.failedRequests
                          = budgetManager.failedRequests + 1
                /\ calls[c].variant = "retryWithProtection"
                     => calls'[c].recordFailures = calls[c].recordFailures + 1
        /\ SettlesLate(c)
             => /\ calls'[c].pc = calls[c].pc
                /\ calls'[c].result = calls[c].result
                /\ calls'[c].attempt = calls[c].attempt
                /\ circuitBreaker' = circuitBreaker
                /\ budgetManager' = budgetManager]_vars

\* The first attempt timed out, the retry succeeded, and the fn that had
\* timed out settled after the call had returned
C28_Witness ==
    /\ Done(1) /\ Succeeded(1)
    /\ calls[1].variant = "retryWithProtection"
    /\ calls[1].timeouts = 1
    /\ calls[1].fnCalls = 2
    /\ calls[1].inFlight = 0
    /\ calls[1].recordFailures = 1 /\ calls[1].recordSuccesses = 1

\* C39 as stated: the invocations of fn that one call has made and that
\* have not settled are never more than one, also with timeoutMs set.
C39_NeverOverlap ==
    \A c \in Calls : calls[c].inFlight <= 1

\* C39, amended: a call invokes fn again only at the end of a backoff
\* sleep, when every earlier invocation has settled or has timed out.  The
\* invocations that have not settled are the one the call awaits and those
\* that timed out, so without a timeout they never overlap.
C39_OverlapOnlyAfterTimeout ==
    [][\A c \in Calls :
        /\ (calls'[c].fnCalls # calls[c].fnCalls /\ calls[c].fnCalls >= 1)
             => /\ calls[c].pc = "sleep"
                /\ calls[c].inFlight <= calls[c].timeouts
                /\ calls'[c].fnCalls = calls[c].fnCalls + 1
        /\ calls'[c].inFlight
             <= (IF calls'[c].pc = "infn" THEN 1 ELSE 0) + calls'[c].timeouts
        /\ calls'[c].timeouts = 0
             => calls'[c].inFlight = (IF calls'[c].pc = "infn" THEN 1 ELSE 0)]_vars

\* The first attempt timed out and has not settled; the backoff sleep has
\* ended and the call awaits the second attempt
C39_Witness ==
    /\ calls[1].pc = "infn"
    /\ calls[1].fnCalls = 2
    /\ calls[1].timeouts = 1
    /\ calls[1].sleeps = 1
    /\ calls[1].inFlight = 2

\* Call c ends, or hands its outcome to the function awaiting retry()
Ends(c) ==
    /\ calls[c].pc \notin {"outer", "done"}
    /\ calls'[c].pc \in {"outer", "done"}

\* What C29 says of one step of call c, but for the count at the end
OnRetryStep(c) ==
    /\ calls'[c].onRetryCalls # calls[c].onRetryCalls
         => /\ calls'[c].onRetryCalls = calls[c].onRetryCalls + 1
            /\ calls'[c].onRetryArgs.error = toError(calls'[c].thrown)
            /\ calls'[c].onRetryArgs.attempt = calls[c].attempt + 1
            /\ calls'[c].onRetryArgs.attempt = calls[c].fnCalls
            /\ calls'[c].fnCalls = calls[c].fnCalls
            /\ \/ /\ calls'[c].pc = "sleep"
                  /\ calls'[c].sleeps = calls[c].sleeps + 1
                  /\ calls'[c].slept = calls'[c].onRetryArgs.delayMs
               \/ calls'[c].ended = "onRetry"
    /\ (calls'[c].fnCalls # calls[c].fnCalls /\ calls[c].fnCalls >= 1)
         => /\ calls[c].onRetryCalls = calls[c].fnCalls
            /\ calls[c].pc = "sleep"
    /\ (Ends(c) /\ calls'[c].ended # "onRetry")
         => calls'[c].onRetryCalls = calls[c].onRetryCalls

\* The ways a call ends that C29 lists
EndedAsListed(c) ==
    Done(c) /\ calls[c].ended \in {"success", "exhausted", "predicate",
                                    "preflight", "breaker", "budget",
                                    "backpressure"}

\* C29 as stated: onRetry is called once before each re-invocation of fn,
\* before the backoff sleep, with the error of the attempt that just failed,
\* the number of the retry to come (attempt index + 1) and the delay then
\* slept; it is not called when the call ends, so a call that has ended has
\* called onRetry once less than it has invoked fn.
C29_OnRetryCountIsInvocationsLessOne ==
    [][\A c \in Calls :
        /\ OnRetryStep(c)
        /\ EndedAsListed(c)
             => calls[c].onRetryCalls = calls[c].fnCalls - 1]_vars

\* C29, amended: as stated, but a call that has ended in one of the listed
\* ways has called onRetry once less than it has invoked fn, or never when
\* it has never invoked fn.
C29_OnRetryBeforeEachRetry ==
    [][\A c \in Calls :
        /\ OnRetryStep(c)
        /\ EndedAsListed(c)
             => calls[c].onRetryCalls
                  = IF calls[c].fnCalls = 0 THEN 0 ELSE calls[c].fnCalls - 1]_vars

\* The second attempt of a protected call rejected with a value that is not
\* an Error: onRetry got the Error made of it, retry number 2 and the
\* delay 2 of the sleep the call is in
C29_Witness ==
    /\ calls[1].pc = "sleep"
    /\ calls[1].variant = "retryWithProtection"
    /\ calls[1].thrown.name = "raw"
    /\ calls[1].onRetryCalls = 2
    /\ calls[1].onRetryArgs
         = OnRetryArgs([name |-> "Error", message |-> "b"], 2, Whole(2))
    /\ calls[1].slept = Whole(2)

\* The step is the one in which the breaker denies call c, a
\* retryWithProtection call, the retry of the attempt that has just failed
BreakerDeniesRetry(c) ==
    /\ calls[c].variant = "retryWithProtection"
    /\ calls[c].pc = "infn"
    /\ calls'[c].pc = "done"
    /\ calls'[c].ended = "breaker"

\* C35: when the breaker denies a retryWithProtection call a retry, the
\* failed attempt is recorded on the breaker and on the budget, and the
\* budget is not asked: checkBackpressure is not called, the budget is not
\* debited and totalRetries stays as it was.
C35_BreakerBeforeBudget ==
    [][\A c \in Calls : BreakerDeniesRetry(c) =>
        /\ calls'[c].recordFailures = calls[c].recordFailures + 1
        /\ calls'[c].outcomeFailures = calls[c].outcomeFailures + 1
        /\ circuitBreaker'.lastFailureTime = now
        /\ budgetManager' = recordOutcome(budgetManager, FALSE)
        /\ budgetManager'.budget = budgetManager.budget
        /\ budgetManager'.totalRetries = budgetManager.totalRetries]_vars

\* The breaker has denied a retry that a retry predicate accepted, that
\* maxRetries allowed and that the budget, never debited, could have admitted
C35_Witness ==
    /\ calls[1].variant = "retryWithProtection"
    /\ calls[1].ended = "breaker"
    /\ calls[1].fnCalls = 1
    /\ options.maxRetries = 2
    /\ DblGT[budgetManager.budget, DblZero]
    /\ budgetManager.totalRetries = 0
    /\ budgetManager.failedRequests >= 1
    /\ budgetOptions.checkBackpressure

\* The budget denied call c a retry
BudgetDenied(c) == Done(c) /\ calls[c].ended \in {"budget", "backpressure"}

\* C18: a call of retryWithBudget or retryWithProtection that the budget
\* denies a retry ends raising the error of its last attempt; after that
\* attempt it has not invoked fn, called onRetry or slept.
C18_DenialRaisesLastError ==
    \A c \in Calls :
        BudgetDenied(c)
        => /\ calls[c].result = Raised(toError(calls[c].thrown))
           /\ calls[c].fnCalls = calls[c].failedAttempts
           /\ calls[c].onRetryCalls = calls[c].failedAttempts - 1
           /\ calls[c].sleeps = calls[c].failedAttempts - 1

\* The budget admitted the first retry and denied the second, after fn
\* had rejected with a value that is not an Error
C18_Witness ==
    /\ BudgetDenied(1)
    /\ calls[1].variant = "retryWithBudget"
    /\ calls[1].ended = "budget"
    /\ calls[1].failedAttempts = 2
    /\ calls[1].thrown.name = "raw"

\* C19: a call whose onRetry callback throws still ends with fn's value or
\* with the error of fn's last attempt.
C19_ObserverCannotMask ==
    \A c \in Calls :
        Done(c) => \/ calls[c].result = Returned("ok")
                   \/ calls[c].result = Raised(toError(calls[c].thrown))
                   \/ calls[c].result.name = "CircuitOpenError"

\* The breaker does not allow a call: open with resetTimeoutMs not elapsed,
\* or half-open with its probe admitted
NotAllowing ==
    \/ /\ circuitBreaker.state = "open"
       /\ now - circuitBreaker.lastFailureTime < cbOptions.resetTimeoutMs
    \/ /\ circuitBreaker.state = "half-open"
       /\ circuitBreaker.halfOpenAttempts >= 1

\* C8: a call of retryWithCircuitBreaker or retryWithProtection made while
\* the breaker does not allow calls raises CircuitOpenError, does not invoke
\* fn and appends nothing to the failure window.
C8_PreflightRejects ==
    [][\A c \in Calls :
         (calls[c].pc = "idle" /\ calls'[c].pc # "idle"
             /\ UsesBreaker(calls'[c].variant) /\ NotAllowing)
         => /\ calls'[c].pc = "done"
            /\ calls'[c].result = Raised(CircuitOpenError)
            /\ calls'[c].fnCalls = 0
            /\ calls'[c].recordFailures = 0 /\ calls'[c].recordSuccesses = 0
            /\ circuitBreaker'.failures = circuitBreaker.failures
            /\ circuitBreaker'.state = circuitBreaker.state]_vars

\* A call was rejected by a half-open breaker whose probe another caller holds
C8_Witness ==
    /\ Done(1) /\ calls[1].ended = "preflight"
    /\ calls[1].fnCalls = 0
    /\ circuitBreaker.state = "half-open"

\* retryWithResult has returned its RetryResult object
ResultDone(c) == Done(c) /\ calls[c].variant = "retryWithResult"

\* The call returned an object, with fn's value or the error retry() raised,
\* and attempts counting the invocations of fn
ReturnsRetryResult(c) ==
    /\ calls[c].result = Returned("RetryResult")
    /\ calls[c].retryResult.attempts = calls[c].fnCalls
    /\ calls[c].retryResult.success
         => calls[c].retryResult.settled = Returned("ok")
    /\ ~calls[c].retryResult.success
         => calls[c].retryResult.settled = Raised(toError(calls[c].thrown))

\* C21 as stated: retryWithResult never raises; it returns success=true
\* with fn's value or success=false with the final error, attempts is the
\* number of invocations of fn, and when every invocation of fn failed
\* attempts = maxRetries + 1.
C21_ResultNeverRaises ==
    \A c \in Calls :
        ResultDone(c)
        => /\ ReturnsRetryResult(c)
           /\ calls[c].failedAttempts = calls[c].fnCalls
                => calls[c].retryResult.attempts = options.maxRetries + 1

\* C21 amended: retryWithResult never raises; it returns success=true with
\* fn's value or success=false with the final error, attempts is the number
\* of invocations of fn, and when the call fails because the retries are
\* exhausted attempts = maxRetries + 1.
C21_ResultNeverRaisesExhausted ==
    \A c \in Calls :
        ResultDone(c)
        => /\ ReturnsRetryResult(c)
           /\ calls[c].ended = "exhausted"
                => /\ ~calls[c].retryResult.success
                   /\ calls[c].failedAttempts = calls[c].fnCalls
                   /\ calls[c].retryResult.attempts = options.maxRetries + 1

\* fn failed on all three invocations, the last time with a value that is
\* not an Error, and the call returned the failure
C21_Witness ==
    /\ ResultDone(1)
    /\ options.maxRetries = 2
    /\ calls[1].ended = "exhausted"
    /\ calls[1].thrown.name = "raw"
    /\ calls[1].retryResult = RetryResult(FALSE, Raised(toError(calls[1].thrown)), 3)

----------------------------------------------------------------------------
(* Claims about the BackpressureManager (SpecBackpressure) *)

\* The step is a call of the named operation for id
DoesSignalOp(op, id) ==
    /\ now' = now
    /\ lastSignalOp'.op = op
    /\ lastSignalOp'.id = id

\* The map holds a signal for id that is at most signalTtlMs old
Fresh(id) ==
    /\ signals[id].stored
    /\ now - signals[id].timestamp <= bpOptions.signalTtlMs

\* C22: getSignal(id) returns the stored signal while its age is at most
\* signalTtlMs; once it is older getSignal(id) returns nothing and removes
\* the entry, isOverloaded(id) returns false, and the entry stays away until
\* a signal is recorded for id.  The same holds when getSignal(id) is reached
\* through getLoadLevel(id) or getRetryAfterMs(id).
C22_SignalExpires ==
    [][\A id \in ServiceIds :
        /\ \A op \in Lookups :
             DoesSignalOp(op, id)
             => signals' = [signals EXCEPT ![id] = IF Fresh(id) THEN @ ELSE NoSignal]
        /\ (DoesSignalOp("getLoadLevel", id) /\ ~Fresh(id))
             => lastSignalOp'.value = Undefined
        /\ (DoesSignalOp("getRetryAfterMs", id) /\ ~Fresh(id))
             => lastSignalOp'.value = Undefined
        /\ (DoesSignalOp("getSignal", id) /\ Fresh(id))
             => /\ lastSignalOp'.ret = signals[id]
                /\ signals'[id] = signals[id]
        /\ (DoesSignalOp("getSignal", id) /\ ~Fresh(id))
             => /\ lastSignalOp'.ret = NoSignal
                /\ ~signals'[id].stored
        /\ (DoesSignalOp("isOverloaded", id) /\ Fresh(id))
             => lastSignalOp'.overloaded = signals[id].isOverloaded
        /\ (DoesSignalOp("isOverloaded", id) /\ ~Fresh(id))
             => /\ ~lastSignalOp'.overloaded
                /\ ~signals'[id].stored
        /\ (~signals[id].stored /\ signals'[id].stored)
             => \/ DoesSignalOp("recordSignal", id)
                \/ DoesSignalOp("recordFromHeaders", id)]_vars

\* isOverloaded() found a signal of overload older than signalTtlMs,
\* answered false and removed it
C22_Witness ==
    /\ lastSignalOp.op = "isOverloaded"
    /\ lastSignalOp.found.stored
    /\ lastSignalOp.found.isOverloaded
    /\ now - lastSignalOp.found.timestamp = bpOptions.signalTtlMs + 1
    /\ ~lastSignalOp.overloaded
    /\ ~signals[lastSignalOp.id].stored

\* The header is there
Present(str) == str # Null

\* C23: recordFromHeaders(id, headers) stores a signal only if one of the
\* three headers is present, and then with isOverloaded = shedding or
\* (loadLevel present and loadLevel >= overloadThreshold); with none of
\* them present it leaves the map as it was.
C23_RecordsOnlySignals ==
    [][\A id \in ServiceIds :
        DoesSignalOp("recordFromHeaders", id)
        => LET headers == lastSignalOp'.headers
               shedding == headers.shedding \in {"true", "1"}
               loadLevel == parseFloat(headers.loadLevel)
           IN /\ signals'[id] # signals[id]
                   => /\ \/ Present(headers.loadLevel)
                         \/ Present(headers.retryAfter)
                         \/ Present(headers.shedding)
                      /\ signals'[id].stored
                      /\ signals'[id].timestamp = now
                      /\ signals'[id].isOverloaded
                           <=> \/ shedding
                               \/ /\ Present(headers.loadLevel)
                                  /\ NumberGE(loadLevel, bpOptions.overloadThreshold)
              /\ (~Present(headers.loadLevel) /\ ~Present(headers.retryAfter)
                    /\ ~Present(headers.shedding))
                   => signals' = signals]_vars

\* A response without any of the headers left in place the signal of
\* overload that a load level equal to the threshold had stored
C23_Witness ==
    /\ lastSignalOp.op = "recordFromHeaders"
    /\ lastSignalOp.headers = NoHeaders
    /\ signals[lastSignalOp.id].stored
    /\ signals[lastSignalOp.id].isOverloaded
    /\ signals[lastSignalOp.id].loadLevel = Number(<<4, 5>>)
    /\ signals[lastSignalOp.id].timestamp < now

====
